---- MODULE Spec2Model ----
(***************************************************************************)
(* Verification model of deepc0py/sec-int.                                 *)
(*                                                                         *)
(* Spec       : VulnerabilityAnalysisOrchestrator.analyze_scan_report      *)
(*              (src/src/app/orchestrator.py): the bounded fan-out of      *)
(*              analyze_with_timeout tasks behind an asyncio.Semaphore.    *)
(* SpecSearch : RetrievalService.search_vulnerability_knowledge            *)
(*              (src/src/app/retrieval.py) and the agent tool that wraps   *)
(*              it (src/src/app/agent.py).                                 *)
(***************************************************************************)
EXTENDS Integers, Sequences, FiniteSets, TLC

VARIABLES
    \* ---- analyze_scan_report ----
    bpc,             \* position of analyze_scan_report: "called", "gather", "returned"
    findings,        \* extract_vulnerability_ids(normalized_text), ids in first-appearance order
    max_concurrent,  \* the max_concurrent argument
    semaphore,       \* asyncio.Semaphore: permits left
    taskState,       \* per task: "waiting" (on the semaphore), "running", "returned"
    taskResult,      \* per task: the tuple analyze_with_timeout returned
    completed,       \* positions of the tasks in the order they finished
    results,         \* the local list results
    errors,          \* the local list errors
    returned,        \* what the caller of analyze_scan_report got
    \* ---- search_vulnerability_knowledge ----
    spc,             \* position of the call
    entry,           \* "service": called directly, "tool": called through the agent tool
    store,           \* rows of vulnerability_knowledge
    vulnerability_id,
    top_k,
    similarity_threshold,
    calls,           \* external calls issued so far, in order: <<call, "ok" or "raised">>
    vulnerability_info,
    finding,
    distance,        \* embedding <-> query_embedding of every stored row
    chunks_data,     \* rows returned by _vector_search
    svcOutcome,      \* outcome of RetrievalService.search_vulnerability_knowledge
    toolOutcome,     \* outcome of the agent tool search_vulnerability_knowledge
    \* ---- chunk_document ----
    cpc,             \* position of chunk_document: "called", "split", "overlapped", "returned"
    text,            \* the text argument, a sequence of characters
    max_tokens,
    min_tokens,
    overlap_tokens,
    split_chunks,    \* what splitter.split_text(text) returned
    text_chunks,     \* the local text_chunks (after the overlap step, when it runs)
    doc_chunks,      \* the list chunk_document returned
    \* ---- VectorStore.upsert_chunks ----
    vulnerability_knowledge,  \* the table, its rows in order of their SERIAL id
    chunk_batch,     \* the chunks argument of the latest upsert_chunks call
    first_batch,     \* the chunks argument of the first upsert_chunks call that committed
    upserts,         \* number of upsert_chunks calls made
    upsertOutcome,   \* how the latest call ended: "none", "committed", "ValueError"
    repeated,        \* the latest call committed the same chunks as the call before it
    \* ---- extract_vulnerability_ids, as analyze_scan_report calls it ----
    ppc,             \* position: "called", "extracted", "started", "returned"
    normalized_text, \* the text handed to extract_vulnerability_ids
    matches,         \* the local matches, sorted by position
    extracted,       \* the findings extract_vulnerability_ids returned
    tasks,           \* the finding ids analyze_scan_report created a task for
    \* ---- handle_scan_input ----
    payloads,        \* the payload of each handle_scan_input call to be made
    handled          \* what each call returned or raised, NotYet before it is made

batchVars == <<bpc, findings, max_concurrent, semaphore, taskState, taskResult,
               completed, results, errors, returned>>
searchVars == <<spc, entry, store, vulnerability_id, top_k, similarity_threshold,
                calls, vulnerability_info, finding, distance, chunks_data,
                svcOutcome, toolOutcome>>
chunkVars == <<cpc, text, max_tokens, min_tokens, overlap_tokens, split_chunks,
               text_chunks, doc_chunks>>
storeVars == <<vulnerability_knowledge, chunk_batch, first_batch, upserts, upsertOutcome,
               repeated>>
parseVars == <<ppc, normalized_text, matches, extracted, tasks>>
inputVars == <<payloads, handled>>
vars == <<batchVars, searchVars, chunkVars, storeVars, parseVars, inputVars>>

(***************************************************************************)
(* Bounds of the model.                                                    *)
(***************************************************************************)
MaxFindings == 3
MaxConcurrent == 2
MaxRows == 3
MaxTopK == 2
MaxPieces == 3
MaxTokens == 2
MaxOverlapTokens == 1
MaxUpserts == 3
MaxReportParts == 3
MaxInputParts == 3
MaxWideRows == 12

(***************************************************************************)
(* Python values.                                                          *)
(***************************************************************************)
None == [type |-> "None"]
Str(s) == [type |-> "str", v |-> s]
NotYet == [type |-> "pending"]

\* A task that has not returned has no result tuple yet
NoResult == <<>>

\* Python truthiness of the values the code tests: None and "" are false.
Truthy(x) == x \notin {None, Str("")}

Range(s) == {s[k] : k \in 1..Len(s)}

Min(a, b) == IF a <= b THEN a ELSE b

(***************************************************************************)
(* analyze_scan_report                                                     *)
(***************************************************************************)

\* Identifiers of a scan report, in the order of their first appearance.
ReportIds == <<"T1059", "A01:2021", "CVE-2023-12345", "T1055", "A02:2021">>

\* What self.analyze_vulnerability(vuln_id) returns when the agent run succeeds.
Analysis(vuln_id) == [type |-> "AnalyzedVulnerability", vulnerability_id |-> vuln_id]

\* asyncio.Semaphore(max_concurrent)
NewSemaphore(n) == n

CanAcquire_Unbounded(value) == TRUE

\* Semaphore.acquire() goes through without waiting only while a permit is left.
CanAcquire(value) == value > 0

TaskReturn_DropTimeout(index, vuln_id, outcome) ==
    CASE outcome = "ok" -> <<index, Analysis(vuln_id), None>>
      [] outcome = "timeout" -> <<index, None, None>>
      [] outcome = "error" ->
            <<index, None, [id |-> vuln_id, error |-> <<"Analysis failed for", vuln_id>>]>>

\* The tuple analyze_with_timeout returns on each of its three exits.
TaskReturn(index, vuln_id, outcome) ==
    CASE outcome = "ok" -> <<index, Analysis(vuln_id), None>>
      [] outcome = "timeout" ->
            <<index, None, [id |-> vuln_id, error |-> <<"Analysis timeout for", vuln_id>>]>>
      [] outcome = "error" ->
            <<index, None, [id |-> vuln_id, error |-> <<"Analysis failed for", vuln_id>>]>>

\* asyncio.gather(*tasks): the results in the order of the awaitables.
Gather(tr) == [k \in 1..Len(tr) |-> tr[k]]

\* list.sort(key=lambda x: x[0]) (the keys are pairwise distinct)
SortByIndex(seq) ==
    [k \in 1..Len(seq) |->
        seq[CHOOSE p \in 1..Len(seq) :
                Cardinality({q \in 1..Len(seq) : seq[q][1] < seq[p][1]}) = k - 1]]

OrderedTaskResults_AsCompleted(tr, order) == [k \in 1..Len(order) |-> tr[order[k]]]

\* task_results = await asyncio.gather(*tasks); task_results.sort(key=lambda x: x[0])
OrderedTaskResults(tr, order) == SortByIndex(Gather(tr))

RECURSIVE CollectResults_StopAtError(_)
CollectResults_StopAtError(task_results) ==
    IF task_results = <<>> THEN <<>>
    ELSE IF Truthy(task_results[1][3]) THEN <<>>
    ELSE (IF Truthy(task_results[1][2]) THEN <<task_results[1][2]>> ELSE <<>>)
            \o CollectResults_StopAtError(Tail(task_results))

\* for index, analysis, error in task_results: if analysis: results.append(analysis)
CollectResults(task_results) ==
    LET kept == SelectSeq(task_results, LAMBDA t : Truthy(t[2]))
    IN  [k \in 1..Len(kept) |-> kept[k][2]]

\* for index, analysis, error in task_results: if error: errors.append(error)
CollectErrors(task_results) ==
    LET kept == SelectSeq(task_results, LAMBDA t : Truthy(t[3]))
    IN  [k \in 1..Len(kept) |-> kept[k][3]]

ReturnValue_RaiseOnErrors(res, errs) ==
    IF errs # <<>> THEN [kind |-> "raise", value |-> <<>>]
    ELSE [kind |-> "return", value |-> res]

\* return results
ReturnValue(res, errs) == [kind |-> "return", value |-> res]

InitBatch ==
    /\ bpc = "called"
    /\ \E n \in 0..MaxFindings : findings = SubSeq(ReportIds, 1, n)
    /\ max_concurrent \in 1..MaxConcurrent
    /\ semaphore = 0
    /\ taskState = <<>>
    /\ taskResult = <<>>
    /\ completed = <<>>
    /\ results = <<>>
    /\ errors = <<>>
    /\ returned = NotYet

\* if not findings: return []
ReturnNoFindings ==
    /\ bpc = "called"
    /\ findings = <<>>
    /\ bpc' = "returned"
    /\ returned' = [kind |-> "return", value |-> <<>>]
    /\ UNCHANGED <<findings, max_concurrent, semaphore, taskState, taskResult,
                   completed, results, errors>>
    /\ UNCHANGED <<searchVars, chunkVars, storeVars, parseVars, inputVars>>

\* The semaphore and one analyze_with_timeout task per finding are created and
\* handed to asyncio.gather.
CreateTasks ==
    /\ bpc = "called"
    /\ findings # <<>>
    /\ semaphore' = NewSemaphore(max_concurrent)
    /\ taskState' = [k \in 1..Len(findings) |-> "waiting"]
    /\ taskResult' = [k \in 1..Len(findings) |-> NoResult]
    /\ bpc' = "gather"
    /\ UNCHANGED <<findings, max_concurrent, completed, results, errors, returned>>
    /\ UNCHANGED <<searchVars, chunkVars, storeVars, parseVars, inputVars>>

\* async with semaphore: (entry)
Admit(k) ==
    /\ bpc = "gather"
    /\ taskState[k] = "waiting"
    /\ CanAcquire(semaphore)
    /\ semaphore' = semaphore - 1
    /\ taskState' = [taskState EXCEPT ![k] = "running"]
    /\ UNCHANGED <<bpc, findings, max_concurrent, taskResult, completed, results,
                   errors, returned>>
    /\ UNCHANGED <<searchVars, chunkVars, storeVars, parseVars, inputVars>>

Finish_KeepsPermit(k, outcome) ==
    /\ bpc = "gather"
    /\ taskState[k] = "running"
    /\ taskResult' = [taskResult EXCEPT ![k] = TaskReturn(k - 1, findings[k], outcome)]
    /\ taskState' = [taskState EXCEPT ![k] = "returned"]
    /\ semaphore' = semaphore
    /\ completed' = Append(completed, k)
    /\ UNCHANGED <<bpc, findings, max_concurrent, results, errors, returned>>
    /\ UNCHANGED <<searchVars, chunkVars, storeVars, parseVars, inputVars>>

Finish_TimeoutAroundGate(k, outcome) ==
    /\ bpc = "gather"
    /\ \/ taskState[k] = "running"
       \/ taskState[k] = "waiting" /\ outcome = "timeout"
    /\ taskResult' = [taskResult EXCEPT ![k] = TaskReturn(k - 1, findings[k], outcome)]
    /\ taskState' = [taskState EXCEPT ![k] = "returned"]
    /\ semaphore' = IF taskState[k] = "running" THEN semaphore + 1 ELSE semaphore
    /\ completed' = Append(completed, k)
    /\ UNCHANGED <<bpc, findings, max_concurrent, results, errors, returned>>
    /\ UNCHANGED <<searchVars, chunkVars, storeVars, parseVars, inputVars>>

\* The body of analyze_with_timeout leaves through one of its three returns and the
\* async with block releases the permit.
Finish(k, outcome) ==
    /\ bpc = "gather"
    /\ taskState[k] = "running"
    /\ taskResult' = [taskResult EXCEPT ![k] = TaskReturn(k - 1, findings[k], outcome)]
    /\ taskState' = [taskState EXCEPT ![k] = "returned"]
    /\ semaphore' = semaphore + 1
    /\ completed' = Append(completed, k)
    /\ UNCHANGED <<bpc, findings, max_concurrent, results, errors, returned>>
    /\ UNCHANGED <<searchVars, chunkVars, storeVars, parseVars, inputVars>>

\* asyncio.wait_for(self.analyze_vulnerability(vuln_id), ...) returned the analysis
AnalysisSucceeds(k) == Finish(k, "ok")

\* asyncio.wait_for raised asyncio.TimeoutError
AnalysisTimesOut(k) == Finish(k, "timeout")

\* self.analyze_vulnerability(vuln_id) raised (it re-raises what the agent run raised)
AnalysisFails(k) == Finish(k, "error")

\* gather returns once every task has returned; the results are sorted, split into
\* results and errors, and results is returned.
CollectAndReturn ==
    /\ bpc = "gather"
    /\ \A k \in 1..Len(findings) : taskState[k] = "returned"
    /\ LET task_results == OrderedTaskResults(taskResult, completed)
           res == CollectResults(task_results)
           errs == CollectErrors(task_results)
       IN  /\ results' = res
           /\ errors' = errs
           /\ returned' = ReturnValue(res, errs)
    /\ bpc' = "returned"
    /\ UNCHANGED <<findings, max_concurrent, semaphore, taskState, taskResult, completed>>
    /\ UNCHANGED <<searchVars, chunkVars, storeVars, parseVars, inputVars>>

Next ==
    \/ ReturnNoFindings
    \/ CreateTasks
    \/ \E k \in 1..Len(findings) : Admit(k)
    \/ \E k \in 1..Len(findings) : AnalysisSucceeds(k)
    \/ \E k \in 1..Len(findings) : AnalysisTimesOut(k)
    \/ \E k \in 1..Len(findings) : AnalysisFails(k)
    \/ CollectAndReturn

(***************************************************************************)
(* Strings whose characters the code inspects are sequences of characters. *)
(***************************************************************************)
Whitespace == {" ", "\t", "\n", "\r", "\f"}
Digits == {"0", "1", "2", "3", "4", "5", "6", "7", "8", "9"}

\* str.upper(), character by character
UpperChar(c) ==
    CASE c = "a" -> "A" [] c = "c" -> "C" [] c = "e" -> "E"
      [] c = "t" -> "T" [] c = "v" -> "V" [] c = "w" -> "W"
      [] c = "i" -> "I" [] c = "p" -> "P"
      [] OTHER -> c

Upper(s) == [k \in 1..Len(s) |-> UpperChar(s[k])]

\* str.lower(), character by character
LowerChar(c) ==
    CASE c = "A" -> "a" [] c = "B" -> "b" [] c = "C" -> "c" [] c = "D" -> "d"
      [] c = "E" -> "e" [] c = "F" -> "f" [] c = "G" -> "g" [] c = "H" -> "h"
      [] c = "I" -> "i" [] c = "J" -> "j" [] c = "K" -> "k" [] c = "L" -> "l"
      [] c = "M" -> "m" [] c = "N" -> "n" [] c = "O" -> "o" [] c = "P" -> "p"
      [] c = "Q" -> "q" [] c = "R" -> "r" [] c = "S" -> "s" [] c = "T" -> "t"
      [] c = "U" -> "u" [] c = "V" -> "v" [] c = "W" -> "w" [] c = "X" -> "x"
      [] c = "Y" -> "y" [] c = "Z" -> "z"
      [] OTHER -> c

Lower(s) == [k \in 1..Len(s) |-> LowerChar(s[k])]

\* str.startswith(prefix)
StartsWith(s, prefix) ==
    Len(s) >= Len(prefix) /\ SubSeq(s, 1, Len(prefix)) = prefix

\* str.isdigit(): false on the empty string
IsDigit(s) == s # <<>> /\ \A k \in 1..Len(s) : s[k] \in Digits

RECURSIVE LStrip(_)
LStrip(s) == IF s # <<>> /\ Head(s) \in Whitespace THEN LStrip(Tail(s)) ELSE s

RECURSIVE RStrip(_)
RStrip(s) ==
    IF s # <<>> /\ s[Len(s)] \in Whitespace THEN RStrip(SubSeq(s, 1, Len(s) - 1)) ELSE s

\* str.strip()
Strip(s) == RStrip(LStrip(s))

(***************************************************************************)
(* app.models                                                              *)
(***************************************************************************)
ValidationError == [type |-> "ValidationError"]

\* VulnerabilityFinding.source: pattern="^(owasp|mitre|cve|custom)$"
SourcePattern == {"owasp", "mitre", "cve", "custom"}

\* VulnerabilityFinding(id=..., source=..., title=...): the validated model, or the
\* ValidationError pydantic raises (id: str_strip_whitespace, min_length=1).
VulnerabilityFinding(id, source, title) ==
    IF Len(Strip(id)) >= 1 /\ source \in SourcePattern
    THEN [type |-> "VulnerabilityFinding", id |-> Strip(id), source |-> source,
          title |-> title, description |-> None]
    ELSE ValidationError

\* max_length of RetrievedContext.retrieved_chunks and .similarity_scores
MaxChunks == 20
\* max_length of RetrievedContext.source_urls
MaxSourceUrls == 10

\* RetrievedContext(finding=..., retrieved_chunks=..., ...): the validated model, or
\* the ValidationError pydantic raises.
RetrievedContext(f, chunks, urls, scores, query) ==
    IF Len(chunks) <= MaxChunks /\ Len(urls) <= MaxSourceUrls /\ Len(scores) <= MaxChunks
    THEN [type |-> "RetrievedContext", finding |-> f, retrieved_chunks |-> chunks,
          source_urls |-> urls, similarity_scores |-> scores, retrieval_query |-> query]
    ELSE ValidationError

(***************************************************************************)
(* RetrievalService                                                        *)
(***************************************************************************)
IdA01 == <<"A", "0", "1", ":", "2", "0", "2", "1">>
IdT1059 == <<"T", "1", "0", "5", "9">>
IdTA0001 == <<"T", "A", "0", "0", "0", "1">>
IdCWE79 == <<"C", "W", "E", "-", "7", "9">>
IdCVE1 == <<"c", "v", "e", "-", "1">>
IdA01Lower == <<"a", "0", "1", ":", "2", "0", "2", "1">>
IdT1059Lower == <<"t", "1", "0", "5", "9">>

QueryIds == {IdA01, IdT1059, IdTA0001, IdCWE79, IdCVE1, IdA01Lower, IdT1059Lower}

\* Rows populate_db can have written to vulnerability_knowledge from a chunks file
\* (content identifies the row; url is nullable).
KnowledgeRows ==
    { [content |-> "owasp-a01-0", vulnerability_id |-> IdA01, source |-> "owasp",
       title |-> Str("Broken Access Control"), url |-> Str("https://owasp.org/A01")],
      [content |-> "owasp-a01-1", vulnerability_id |-> IdA01, source |-> "owasp",
       title |-> Str("Broken Access Control"), url |-> Str("https://owasp.org/A01")],
      [content |-> "mitre-t1059-0", vulnerability_id |-> IdT1059, source |-> "mitre",
       title |-> Str("Command and Scripting Interpreter"),
       url |-> Str("https://attack.mitre.org/T1059")],
      [content |-> "mitre-ta0001-0", vulnerability_id |-> IdTA0001, source |-> "mitre",
       title |-> Str("Initial Access"), url |-> None],
      [content |-> "cwe-79-0", vulnerability_id |-> IdCWE79, source |-> "owasp",
       title |-> Str(""), url |-> Str("https://cwe.mitre.org/79")] }

\* embedding <-> query_embedding, in tenths
Distances == {1, 5, 12}
\* similarity_threshold values, in tenths
Thresholds == {3, 7}
\* top_k=5 and similarity_threshold=0.7, the defaults the agent tool runs with
DefaultTopK == 5
DefaultThreshold == 7

EmptyDict == <<>>

\* dict.get(key)
Get(d, key) == IF key \in DOMAIN d THEN d[key] ELSE None

\* _get_vulnerability_info: SELECT DISTINCT title, url, source ... WHERE
\* vulnerability_id = $1 LIMIT 1 gives any one of the matching tuples, or {}.
GetVulnerabilityInfoResults(rows, id) ==
    LET found == {[title |-> r.title, url |-> r.url, source |-> r.source] :
                      r \in {x \in rows : x.vulnerability_id = id}}
    IN  IF found = {} THEN {EmptyDict} ELSE found

\* RetrievalService._infer_source
_infer_source(id) ==
    IF StartsWith(id, <<"A">>) /\ ":" \in Range(id) THEN "owasp"
    ELSE IF StartsWith(id, <<"T">>)
            /\ ("." \in Range(id) \/ IsDigit(SubSeq(id, 2, Len(id)))) THEN "mitre"
    ELSE IF StartsWith(Upper(id), <<"C", "V", "E", "-">>) THEN "cve"
    ELSE "custom"

\* RetrievalService._enhance_query: the parts that " ".join(parts) joins
_enhance_query(id, title) ==
    <<id>>
    \o (IF Truthy(title) THEN <<title>> ELSE <<>>)
    \o (IF _infer_source(id) = "owasp" THEN <<"web application security vulnerability">>
        ELSE IF _infer_source(id) = "mitre" THEN <<"attack technique threat">>
        ELSE <<>>)

\* source=self._infer_source(vulnerability_id) in search_vulnerability_knowledge
FindingSource(id, info) == _infer_source(id)

\* 1 - (embedding <-> $1::vector), in tenths
Similarity(dist) == 10 - dist

Included_ThresholdOnly(row, dist, id, threshold) == Similarity(dist[row]) >= threshold

\* WHERE (vulnerability_id = $2 OR 1 - (embedding <-> $1::vector) >= $3)
Included(row, dist, id, threshold) ==
    row.vulnerability_id = id \/ Similarity(dist[row]) >= threshold

OrderKey_DistanceOnly(row, dist, id) == <<0, dist[row]>>

\* ORDER BY CASE WHEN vulnerability_id = $2 THEN 0 ELSE 1 END, embedding <-> $1::vector
OrderKey(row, dist, id) == <<IF row.vulnerability_id = id THEN 0 ELSE 1, dist[row]>>

KeyLeq(a, b) == a[1] < b[1] \/ (a[1] = b[1] /\ a[2] <= b[2])

\* The orders ORDER BY may give a set of rows (rows with equal keys come in any order).
OrderedBy(rows, dist, id) ==
    {p \in [1..Cardinality(rows) -> rows] :
        /\ \A i, j \in 1..Cardinality(rows) : i # j => p[i] # p[j]
        /\ \A i, j \in 1..Cardinality(rows) :
              i < j => KeyLeq(OrderKey(p[i], dist, id), OrderKey(p[j], dist, id))}

\* LIMIT $4
Limit(seq, n) == SubSeq(seq, 1, Min(n, Len(seq)))

\* The dict _vector_search builds from a returned row
RowDict(row, dist) ==
    [content |-> row.content, title |-> row.title, url |-> row.url,
     source |-> row.source, vulnerability_id |-> row.vulnerability_id,
     similarity_score |-> Similarity(dist[row])]

\* RetrievalService._vector_search: every list the query can return
_vector_search(rows, dist, id, k, threshold) ==
    { [n \in 1..Len(Limit(p, k)) |-> RowDict(Limit(p, k)[n], dist)] :
        p \in OrderedBy({r \in rows : Included(r, dist, id, threshold)}, dist, id) }

\* list(set(chunk["url"] for chunk in chunks_data if chunk["url"])): any order
SourceUrlLists(data) ==
    LET urls == {data[n].url : n \in {m \in 1..Len(data) : Truthy(data[m].url)}}
    IN  {p \in [1..Cardinality(urls) -> urls] :
            \A i, j \in 1..Cardinality(urls) : i # j => p[i] # p[j]}

\* retrieved_chunks = [chunk["content"] for chunk in chunks_data]
RetrievedChunks(data) == [n \in 1..Len(data) |-> data[n].content]

SimilarityScores_Distinct(data) ==
    LET scores == {data[n].similarity_score : n \in 1..Len(data)}
    IN  [k \in 1..Cardinality(scores) |->
            CHOOSE x \in scores : Cardinality({y \in scores : y > x}) = k - 1]

\* similarity_scores = [chunk["similarity_score"] for chunk in chunks_data]
SimilarityScores(data) == [n \in 1..Len(data) |-> data[n].similarity_score]

Raise(exc) == [kind |-> "raise", exc |-> exc]
Return(value) == [kind |-> "return", value |-> value]

OnEmbeddingError_Swallow(exc) == Return(<<>>)

\* _generate_embedding: except Exception as e: logger.error(...); raise
OnEmbeddingError(exc) == Raise(exc)

\* agent tool, except branch: VulnerabilityFinding(id=vulnerability_id, source="unknown")
EmptyFindingSource == "unknown"

InitSearch ==
    /\ spc = "called"
    /\ entry \in {"service", "tool"}
    /\ store \in {s \in SUBSET KnowledgeRows : Cardinality(s) <= MaxRows}
    /\ vulnerability_id \in QueryIds
    /\ top_k \in (IF entry = "tool" THEN {DefaultTopK} ELSE 0..MaxTopK)
    /\ similarity_threshold \in (IF entry = "tool" THEN {DefaultThreshold} ELSE Thresholds)
    /\ calls = <<>>
    /\ vulnerability_info = EmptyDict
    /\ finding = NotYet
    /\ distance = <<>>
    /\ chunks_data = <<>>
    /\ svcOutcome = NotYet
    /\ toolOutcome = NotYet

\* vulnerability_info = await self._get_vulnerability_info(vulnerability_id), then the
\* finding is built (the query is a function of the same values).
GetVulnerabilityInfo ==
    /\ spc = "called"
    /\ calls' = Append(calls, <<"fetchrow", "ok">>)
    /\ \E info \in GetVulnerabilityInfoResults(store, vulnerability_id) :
          /\ vulnerability_info' = info
          /\ finding' = VulnerabilityFinding(vulnerability_id,
                                             FindingSource(vulnerability_id, info),
                                             Get(info, "title"))
    /\ IF finding' = ValidationError
       THEN spc' = "raised" /\ svcOutcome' = Raise("ValidationError")
       ELSE spc' = "embedding" /\ UNCHANGED svcOutcome
    /\ UNCHANGED <<entry, store, vulnerability_id, top_k, similarity_threshold,
                   distance, chunks_data, toolOutcome>>
    /\ UNCHANGED <<batchVars, chunkVars, storeVars, parseVars, inputVars>>

\* conn.fetchrow raises: nothing in search_vulnerability_knowledge catches it
GetVulnerabilityInfoFails ==
    /\ spc = "called"
    /\ calls' = Append(calls, <<"fetchrow", "raised">>)
    /\ spc' = "raised"
    /\ svcOutcome' = Raise("StoreError")
    /\ UNCHANGED <<entry, store, vulnerability_id, top_k, similarity_threshold,
                   vulnerability_info, finding, distance, chunks_data, toolOutcome>>
    /\ UNCHANGED <<batchVars, chunkVars, storeVars, parseVars, inputVars>>

\* query_embedding = await self._generate_embedding(query): the embedding fixes the
\* distance of every stored row
GenerateEmbedding ==
    /\ spc = "embedding"
    /\ calls' = Append(calls, <<"embeddings.create", "ok">>)
    /\ distance' \in [store -> Distances]
    /\ spc' = "searching"
    /\ UNCHANGED <<entry, store, vulnerability_id, top_k, similarity_threshold,
                   vulnerability_info, finding, chunks_data, svcOutcome, toolOutcome>>
    /\ UNCHANGED <<batchVars, chunkVars, storeVars, parseVars, inputVars>>

\* self.oai_client.embeddings.create raises
GenerateEmbeddingFails ==
    /\ spc = "embedding"
    /\ calls' = Append(calls, <<"embeddings.create", "raised">>)
    /\ LET r == OnEmbeddingError("EmbeddingError")
       IN  IF r.kind = "raise"
           THEN spc' = "raised" /\ svcOutcome' = r /\ UNCHANGED distance
           ELSE spc' = "searching" /\ UNCHANGED svcOutcome
                /\ distance' \in [store -> Distances]
    /\ UNCHANGED <<entry, store, vulnerability_id, top_k, similarity_threshold,
                   vulnerability_info, finding, chunks_data, toolOutcome>>
    /\ UNCHANGED <<batchVars, chunkVars, storeVars, parseVars, inputVars>>

\* chunks_data = await self._vector_search(...) and the RetrievedContext is returned
VectorSearch ==
    /\ spc = "searching"
    /\ calls' = Append(calls, <<"fetch", "ok">>)
    /\ chunks_data' \in _vector_search(store, distance, vulnerability_id, top_k,
                                       similarity_threshold)
    /\ \E source_urls \in SourceUrlLists(chunks_data') :
          LET ctx == RetrievedContext(
                        finding,
                        RetrievedChunks(chunks_data'),
                        source_urls,
                        SimilarityScores(chunks_data'),
                        _enhance_query(vulnerability_id, Get(vulnerability_info, "title")))
          IN  IF ctx = ValidationError
              THEN spc' = "raised" /\ svcOutcome' = Raise("ValidationError")
              ELSE spc' = "returned" /\ svcOutcome' = Return(ctx)
    /\ UNCHANGED <<entry, store, vulnerability_id, top_k, similarity_threshold,
                   vulnerability_info, finding, distance, toolOutcome>>
    /\ UNCHANGED <<batchVars, chunkVars, storeVars, parseVars, inputVars>>

\* conn.fetch raises: nothing in search_vulnerability_knowledge catches it
VectorSearchFails ==
    /\ spc = "searching"
    /\ calls' = Append(calls, <<"fetch", "raised">>)
    /\ spc' = "raised"
    /\ svcOutcome' = Raise("StoreError")
    /\ UNCHANGED <<entry, store, vulnerability_id, top_k, similarity_threshold,
                   vulnerability_info, finding, distance, chunks_data, toolOutcome>>
    /\ UNCHANGED <<batchVars, chunkVars, storeVars, parseVars, inputVars>>

\* agent tool, try branch: return context
ToolReturn ==
    /\ entry = "tool"
    /\ spc = "returned"
    /\ toolOutcome' = svcOutcome
    /\ spc' = "tool_done"
    /\ UNCHANGED <<entry, store, vulnerability_id, top_k, similarity_threshold, calls,
                   vulnerability_info, finding, distance, chunks_data, svcOutcome>>
    /\ UNCHANGED <<batchVars, chunkVars, storeVars, parseVars, inputVars>>

\* agent tool, except Exception branch: the empty finding is built and wrapped in an
\* empty RetrievedContext; an exception raised while building it leaves the tool.
ToolCatch ==
    /\ entry = "tool"
    /\ spc = "raised"
    /\ LET empty_finding == VulnerabilityFinding(vulnerability_id, EmptyFindingSource, None)
       IN  toolOutcome' =
              IF empty_finding = ValidationError THEN Raise("ValidationError")
              ELSE Return(RetrievedContext(empty_finding, <<>>, <<>>, <<>>, None))
    /\ spc' = "tool_done"
    /\ UNCHANGED <<entry, store, vulnerability_id, top_k, similarity_threshold, calls,
                   vulnerability_info, finding, distance, chunks_data, svcOutcome>>
    /\ UNCHANGED <<batchVars, chunkVars, storeVars, parseVars, inputVars>>

NextSearch ==
    \/ GetVulnerabilityInfo
    \/ GetVulnerabilityInfoFails
    \/ GenerateEmbedding
    \/ GenerateEmbeddingFails
    \/ VectorSearch
    \/ VectorSearchFails
    \/ ToolReturn
    \/ ToolCatch

(***************************************************************************)
(* RetrievalService over a store with many rows of one vulnerability       *)
(***************************************************************************)
\* content of the n-th row of a wide store, nearest row first
WideContents ==
    << "kb-01", "kb-02", "kb-03", "kb-04", "kb-05", "kb-06",
       "kb-07", "kb-08", "kb-09", "kb-10", "kb-11", "kb-12",
       "kb-13", "kb-14", "kb-15", "kb-16", "kb-17", "kb-18",
       "kb-19", "kb-20", "kb-21", "kb-22", "kb-23", "kb-24" >>

\* The urls rows of a wide store cite
WideUrls ==
    << "https://kb/01", "https://kb/02", "https://kb/03", "https://kb/04",
       "https://kb/05", "https://kb/06", "https://kb/07", "https://kb/08",
       "https://kb/09", "https://kb/10", "https://kb/11" >>

\* The n-th row: one of the first `distinct` urls in turn, no url when distinct = 0 or,
\* with `nulls`, on every third row
WideRow(n, distinct, nulls) ==
    [content |-> WideContents[n], vulnerability_id |-> IdA01, source |-> "owasp",
     title |-> Str("Broken Access Control"),
     url |-> IF distinct = 0 \/ (nulls /\ n % 3 = 0) THEN None
             ELSE Str(WideUrls[((n - 1) % distinct) + 1])]

WideStore(m, distinct, nulls) == {WideRow(n, distinct, nulls) : n \in 1..m}

\* embedding <-> query_embedding of a row of a wide store: its place in WideContents
WideDistance(row) == CHOOSE n \in 1..Len(WideContents) : WideContents[n] = row.content

\* RetrievalService._vector_search on rows whose order keys are pairwise distinct: the
\* one list the query returns
_vector_search_ranked(rows, dist, id, k, threshold) ==
    LET included == {r \in rows : Included(r, dist, id, threshold)}
        Before(r) == {q \in included : KeyLeq(OrderKey(q, dist, id), OrderKey(r, dist, id))}
        ordered == [n \in 1..Cardinality(included) |->
                       CHOOSE r \in included : Cardinality(Before(r)) = n]
    IN  [n \in 1..Len(Limit(ordered, k)) |-> RowDict(Limit(ordered, k)[n], dist)]

RECURSIVE SetToSeq(_)
SetToSeq(S) ==
    IF S = {} THEN <<>>
    ELSE LET x == CHOOSE y \in S : TRUE IN <<x>> \o SetToSeq(S \ {x})

Reverse(seq) == [i \in 1..Len(seq) |-> seq[Len(seq) + 1 - i]]

\* list(set(chunk["url"] for chunk in chunks_data if chunk["url"])): one listing of the
\* set and its reverse, of all the orders the set can come in
SourceUrlOrders(data) ==
    LET listing == SetToSeq({data[n].url : n \in {m \in 1..Len(data) : Truthy(data[m].url)}})
    IN  {listing, Reverse(listing)}

InitWideSearch ==
    /\ spc = "called"
    /\ entry = "service"
    /\ \E m \in 0..MaxWideRows, nulls \in BOOLEAN,
          distinct \in {0, 1, MaxSourceUrls, MaxSourceUrls + 1} :
          store = WideStore(m, distinct, nulls)
    /\ vulnerability_id = IdA01
    /\ top_k \in 1..MaxChunks
    /\ similarity_threshold = DefaultThreshold
    /\ calls = <<>>
    /\ vulnerability_info = EmptyDict
    /\ finding = NotYet
    /\ distance = <<>>
    /\ chunks_data = <<>>
    /\ svcOutcome = NotYet
    /\ toolOutcome = NotYet

\* search_vulnerability_knowledge with the metadata lookup, the embedding request and
\* the vector search all succeeding
SearchWideStore ==
    /\ spc = "called"
    /\ calls' = << <<"fetchrow", "ok">>, <<"embeddings.create", "ok">>, <<"fetch", "ok">> >>
    /\ \E info \in GetVulnerabilityInfoResults(store, vulnerability_id) :
          /\ vulnerability_info' = info
          /\ finding' = VulnerabilityFinding(vulnerability_id,
                                             FindingSource(vulnerability_id, info),
                                             Get(info, "title"))
    /\ distance' = [r \in store |-> WideDistance(r)]
    /\ chunks_data' = _vector_search_ranked(store, distance', vulnerability_id, top_k,
                                            similarity_threshold)
    /\ \E source_urls \in SourceUrlOrders(chunks_data') :
          LET ctx == RetrievedContext(
                        finding',
                        RetrievedChunks(chunks_data'),
                        source_urls,
                        SimilarityScores(chunks_data'),
                        _enhance_query(vulnerability_id, Get(vulnerability_info', "title")))
          IN  IF finding' = ValidationError \/ ctx = ValidationError
              THEN spc' = "raised" /\ svcOutcome' = Raise("ValidationError")
              ELSE spc' = "returned" /\ svcOutcome' = Return(ctx)
    /\ UNCHANGED <<entry, store, vulnerability_id, top_k, similarity_threshold, toolOutcome>>
    /\ UNCHANGED <<batchVars, chunkVars, storeVars, parseVars, inputVars>>

NextWideSearch == SearchWideStore

(***************************************************************************)
(* app.ingestion.chunking                                                  *)
(***************************************************************************)
Max(a, b) == IF a >= b THEN a ELSE b

\* TokenEstimator.chars_per_token (4.0)
CharsPerToken == 4

\* TokenEstimator.estimate_tokens: max(1, int(len(text) / self.chars_per_token))
estimate_tokens(t) == Max(1, Len(t) \div CharsPerToken)

\* TokenEstimator.estimate_chars_for_tokens: int(token_count * self.chars_per_token)
estimate_chars_for_tokens(n) == n * CharsPerToken

\* RecursiveTextSplitter.separators
Separators ==
    << <<"\n", "\n", "\n">>, <<"\n", "\n">>, <<"\n">>, <<".", " ">>, <<"!", " ">>,
       <<"?", " ">>, <<";", " ">>, <<",", " ">>, <<" ">>, <<>> >>

\* str.find(sub) + 1: the first position sub occurs at, 0 when it does not occur
Find(t, sub) ==
    LET hits == {i \in 1..(Len(t) - Len(sub) + 1) : SubSeq(t, i, i + Len(sub) - 1) = sub}
    IN  IF hits = {} THEN 0 ELSE CHOOSE i \in hits : \A j \in hits : i <= j

\* str.split(separator), separator non-empty
RECURSIVE Split(_, _)
Split(t, sep) ==
    LET i == Find(t, sep)
    IN  IF i = 0 THEN <<t>>
        ELSE <<SubSeq(t, 1, i - 1)>> \o Split(SubSeq(t, i + Len(sep), Len(t)), sep)

\* current_chunk.strip() appended to chunks when it is not empty
AppendStripped(chunks, current_chunk) ==
    IF Strip(current_chunk) # <<>> THEN Append(chunks, Strip(current_chunk)) ELSE chunks

CharacterSlices(t, max_chars) ==
    [k \in 1..((Len(t) + max_chars - 1) \div max_chars) |->
        SubSeq(t, (k - 1) * max_chars + 1, Min(k * max_chars, Len(t)))]

_character_split_KeepBlank(t, maxTok) ==
    LET slices == CharacterSlices(t, estimate_chars_for_tokens(maxTok))
    IN  [k \in 1..Len(slices) |-> Strip(slices[k])]

\* RecursiveTextSplitter._character_split
_character_split(t, maxTok) ==
    LET slices == CharacterSlices(t, estimate_chars_for_tokens(maxTok))
        kept == SelectSeq(slices, LAMBDA c : Strip(c) # <<>>)
    IN  [k \in 1..Len(kept) |-> Strip(kept[k])]

Fits_OneOver(chunk, maxTok) == estimate_tokens(chunk) <= maxTok + 1

\* if self.tokenizer.estimate_tokens(test_chunk) <= self.max_tokens
Fits(chunk, maxTok) == estimate_tokens(chunk) <= maxTok

part_with_sep_NoSeparator(parts, i, separator) == parts[i]

\* part_with_sep = part + (separator if i < len(parts) - 1 else "")
part_with_sep(parts, i, separator) ==
    parts[i] \o (IF i < Len(parts) THEN separator ELSE <<>>)

RECURSIVE _recursive_split(_, _, _)
RECURSIVE Recombine(_, _, _, _, _, _, _)

\* RecursiveTextSplitter._recursive_split, the loop over parts from part i on
Recombine(parts, i, current_chunk, chunks, separator, separator_index, maxTok) ==
    IF i > Len(parts) THEN AppendStripped(chunks, current_chunk)
    ELSE
        LET part == part_with_sep(parts, i, separator)
            test_chunk == current_chunk \o part
        IN  IF Fits(test_chunk, maxTok)
            THEN Recombine(parts, i + 1, test_chunk, chunks, separator,
                           separator_index, maxTok)
            ELSE IF estimate_tokens(part) > maxTok
            THEN Recombine(parts, i + 1, <<>>,
                           AppendStripped(chunks, current_chunk)
                               \o _recursive_split(part, separator_index + 1, maxTok),
                           separator, separator_index, maxTok)
            ELSE Recombine(parts, i + 1, part,
                           AppendStripped(chunks, current_chunk),
                           separator, separator_index, maxTok)

\* RecursiveTextSplitter._recursive_split (separator_index counts from 1)
_recursive_split(t, separator_index, maxTok) ==
    IF separator_index > Len(Separators) THEN _character_split(t, maxTok)
    ELSE IF Separators[separator_index] = <<>> THEN _character_split(t, maxTok)
    ELSE IF Find(t, Separators[separator_index]) = 0
    THEN _recursive_split(t, separator_index + 1, maxTok)
    ELSE IF Len(Split(t, Separators[separator_index])) = 1
    THEN _recursive_split(t, separator_index + 1, maxTok)
    ELSE SelectSeq(Recombine(Split(t, Separators[separator_index]), 1, <<>>, <<>>,
                             Separators[separator_index], separator_index, maxTok),
                   LAMBDA c : c # <<>>)

split_text_DropShort(t, maxTok, minTok) ==
    IF Strip(t) = <<>> THEN <<>>
    ELSE IF estimate_tokens(t) <= maxTok
    THEN (IF estimate_tokens(t) >= minTok THEN <<Strip(t)>> ELSE <<>>)
    ELSE _recursive_split(t, 1, maxTok)

\* RecursiveTextSplitter.split_text
split_text(t, maxTok, minTok) ==
    IF Strip(t) = <<>> THEN <<>>
    ELSE IF estimate_tokens(t) <= maxTok
    THEN (IF estimate_tokens(t) >= minTok THEN <<Strip(t)>>
          ELSE IF Strip(t) # <<>> THEN <<Strip(t)>> ELSE <<>>)
    ELSE _recursive_split(t, 1, maxTok)

\* prev_chunk[-overlap_chars:]
LastChars(t, n) == SubSeq(t, Len(t) - n + 1, Len(t))

OverlapPrefix_WholePrev(prev_chunk, overlap_chars) == prev_chunk

OverlapPrefix_NoTrim(prev_chunk, overlap_chars) == LastChars(prev_chunk, overlap_chars)

\* The overlap_prefix create_overlapping_chunks takes from prev_chunk
\* (len(prev_chunk) > overlap_chars)
OverlapPrefix(prev_chunk, overlap_chars) ==
    LET overlap_prefix == LastChars(prev_chunk, overlap_chars)
        space_pos == Find(overlap_prefix, <<" ">>) - 1
    IN  IF space_pos > 0
        THEN SubSeq(overlap_prefix, space_pos + 2, Len(overlap_prefix))
        ELSE overlap_prefix

\* RecursiveTextSplitter.create_overlapping_chunks
create_overlapping_chunks(chunks, overlapTok) ==
    IF Len(chunks) <= 1 THEN chunks
    ELSE
        LET overlap_chars == estimate_chars_for_tokens(overlapTok)
        IN  [i \in 1..Len(chunks) |->
                IF i > 1 /\ overlap_chars > 0 /\ Len(chunks[i - 1]) > overlap_chars
                THEN OverlapPrefix(chunks[i - 1], overlap_chars) \o <<" ">> \o chunks[i]
                ELSE chunks[i]]

\* The metadata argument of chunk_document
Metadata ==
    [id |-> "A01:2021", title |-> "Broken Access Control", source |-> "owasp",
     url |-> Str("https://owasp.org/A01")]

OverlapFlag_Always(i, n, overlapTok, pre) == IF pre THEN i > 0 ELSE i < n - 1

\* overlap_pre = i > 0 and overlap_tokens > 0;
\* overlap_post = i < len(text_chunks) - 1 and overlap_tokens > 0
OverlapFlag(i, n, overlapTok, pre) ==
    IF pre THEN i > 0 /\ overlapTok > 0 ELSE i < n - 1 /\ overlapTok > 0

OrderIndex_FromOne(k) == k

\* for i, content in enumerate(text_chunks): the i of the k-th element
OrderIndex(k) == k - 1

\* The Chunk chunk_document builds from the k-th element of text_chunks
Chunk(contents, k, metadata, overlapTok) ==
    [content |-> contents[k],
     vulnerability_id |-> metadata.id,
     title |-> metadata.title,
     source |-> metadata.source,
     url |-> metadata.url,
     order_index |-> OrderIndex(k),
     token_count |-> estimate_tokens(contents[k]),
     overlap_pre |-> OverlapFlag(OrderIndex(k), Len(contents), overlapTok, TRUE),
     overlap_post |-> OverlapFlag(OrderIndex(k), Len(contents), overlapTok, FALSE)]

\* Pieces the texts of the model are put together from
Pieces ==
    { <<"a", "a", "a", "a", "a", "a">>,
      <<"b", "b", "b", "b", "b", "b", "b">>,
      <<"d", "d", "d", "d", "d", "d", "d", "d">>,
      <<"a", "a", " ", "c", "c">>,
      <<" ">>, <<".", " ">>, <<"\n">>, <<"\t", "\t", "\t", "\t">> }

RECURSIVE Concat(_)
Concat(seqs) == IF seqs = <<>> THEN <<>> ELSE Head(seqs) \o Concat(Tail(seqs))

Texts == UNION {{Concat(p) : p \in [1..n -> Pieces]} : n \in 0..MaxPieces}

InitChunk ==
    /\ cpc = "called"
    /\ text \in Texts
    /\ max_tokens \in 1..MaxTokens
    /\ min_tokens \in {1, 2}
    /\ overlap_tokens \in 0..MaxOverlapTokens
    /\ split_chunks = <<>>
    /\ text_chunks = <<>>
    /\ doc_chunks = <<>>

\* if not text.strip(): return []
ChunkBlankText ==
    /\ cpc = "called"
    /\ Strip(text) = <<>>
    /\ cpc' = "returned"
    /\ UNCHANGED <<text, max_tokens, min_tokens, overlap_tokens, split_chunks,
                   text_chunks, doc_chunks>>
    /\ UNCHANGED <<batchVars, searchVars, storeVars, parseVars, inputVars>>

\* text_chunks = splitter.split_text(text); if not text_chunks: return []
SplitText ==
    /\ cpc = "called"
    /\ Strip(text) # <<>>
    /\ split_chunks' = split_text(text, max_tokens, min_tokens)
    /\ text_chunks' = split_chunks'
    /\ cpc' = IF split_chunks' = <<>> THEN "returned" ELSE "split"
    /\ UNCHANGED <<text, max_tokens, min_tokens, overlap_tokens, doc_chunks>>
    /\ UNCHANGED <<batchVars, searchVars, storeVars, parseVars, inputVars>>

\* if len(text_chunks) > 1 and overlap_tokens > 0:
\*     text_chunks = splitter.create_overlapping_chunks(text_chunks)
AddOverlaps ==
    /\ cpc = "split"
    /\ Len(text_chunks) > 1 /\ overlap_tokens > 0
    /\ text_chunks' = create_overlapping_chunks(text_chunks, overlap_tokens)
    /\ cpc' = "overlapped"
    /\ UNCHANGED <<text, max_tokens, min_tokens, overlap_tokens, split_chunks, doc_chunks>>
    /\ UNCHANGED <<batchVars, searchVars, storeVars, parseVars, inputVars>>

\* The Chunk records are built from text_chunks and returned
BuildChunks ==
    /\ \/ cpc = "overlapped"
       \/ cpc = "split" /\ ~(Len(text_chunks) > 1 /\ overlap_tokens > 0)
    /\ doc_chunks' = [k \in 1..Len(text_chunks) |->
                          Chunk(text_chunks, k, Metadata, overlap_tokens)]
    /\ cpc' = "returned"
    /\ UNCHANGED <<text, max_tokens, min_tokens, overlap_tokens, split_chunks, text_chunks>>
    /\ UNCHANGED <<batchVars, searchVars, storeVars, parseVars, inputVars>>

NextChunk ==
    \/ ChunkBlankText
    \/ SplitText
    \/ AddOverlaps
    \/ BuildChunks

(***************************************************************************)
(* app.ingestion.populate_db: VectorStore                                  *)
(***************************************************************************)
\* str(n) of a non-negative int, one character per digit
DigitChar(d) ==
    CASE d = 0 -> "0" [] d = 1 -> "1" [] d = 2 -> "2" [] d = 3 -> "3" [] d = 4 -> "4"
      [] d = 5 -> "5" [] d = 6 -> "6" [] d = 7 -> "7" [] d = 8 -> "8" [] d = 9 -> "9"

RECURSIVE Decimal(_)
Decimal(n) == IF n < 10 THEN <<DigitChar(n)>> ELSE Decimal(n \div 10) \o <<DigitChar(n % 10)>>

HashInput_ContentOnly(chunk) == chunk.content

\* hash_input = f"{chunk['source']}|{chunk['vulnerability_id']}|{chunk['order_index']}|{chunk['content']}"
HashInput(chunk) ==
    chunk.source \o <<"|">> \o chunk.vulnerability_id \o <<"|">>
        \o Decimal(chunk.order_index) \o <<"|">> \o chunk.content

\* hashlib.sha256(...).hexdigest(): a digest per input, taken as free of collisions
Sha256(input) == [sha256 |-> input]

\* VectorStore._compute_content_hash
_compute_content_hash(chunk) == Sha256(HashInput(chunk))

\* The tuple upsert_chunks puts into batch_data for one chunk (the embedding aside)
BatchRow(chunk) ==
    [content |-> chunk.content,
     source |-> chunk.source,
     vulnerability_id |-> chunk.vulnerability_id,
     title |-> chunk.title,
     url |-> chunk.url,
     order_index |-> chunk.order_index,
     content_hash |-> _compute_content_hash(chunk)]

UpsertRow_AlwaysInsert(tbl, row) == Append(tbl, row)

\* INSERT ... ON CONFLICT (content_hash) DO UPDATE SET ... for one row
UpsertRow(tbl, row) ==
    IF \E i \in 1..Len(tbl) : tbl[i].content_hash = row.content_hash
    THEN [i \in 1..Len(tbl) |-> IF tbl[i].content_hash = row.content_hash THEN row ELSE tbl[i]]
    ELSE Append(tbl, row)

\* conn.executemany(upsert_sql, batch_data): the statement once per row, in order
RECURSIVE ExecuteMany(_, _)
ExecuteMany(tbl, batch_data) ==
    IF batch_data = <<>> THEN tbl
    ELSE ExecuteMany(UpsertRow(tbl, Head(batch_data)), Tail(batch_data))

\* Chunk dictionaries handed to upsert_chunks
SrcA == <<"a">>
SrcAB == <<"a", "|", "b">>
VidC == <<"c">>
VidBC == <<"b", "|", "c">>

ChunkDict(src, vid, idx, content, title, url) ==
    [content |-> content, source |-> src, vulnerability_id |-> vid, title |-> title,
     url |-> url, order_index |-> idx]

ChunkPool ==
    { ChunkDict(SrcA, VidC, 0, <<"x">>, "t1", None),
      ChunkDict(SrcA, VidC, 0, <<"x">>, "t2", Str("u")),
      ChunkDict(SrcAB, VidC, 0, <<"x">>, "t1", None),
      ChunkDict(SrcA, VidBC, 0, <<"x">>, "t1", None),
      ChunkDict(SrcA, VidC, 1, <<"x">>, "t1", None),
      ChunkDict(SrcA, VidC, 0, <<"y">>, "t1", None) }

ChunkLists == {<<>>} \cup {<<c>> : c \in ChunkPool} \cup (ChunkPool \X ChunkPool)

InitStore ==
    /\ vulnerability_knowledge = <<>>
    /\ chunk_batch = <<>>
    /\ first_batch = <<>>
    /\ upserts = 0
    /\ upsertOutcome = "none"
    /\ repeated = FALSE

\* upsert_chunks(chunks, embeddings) with len(chunks) = len(embeddings): one transaction
UpsertChunks ==
    /\ upserts < MaxUpserts
    /\ \E cs \in ChunkLists :
          /\ chunk_batch' = cs
          /\ vulnerability_knowledge' =
                 ExecuteMany(vulnerability_knowledge, [k \in 1..Len(cs) |-> BatchRow(cs[k])])
          /\ first_batch' = IF first_batch = <<>> THEN cs ELSE first_batch
          /\ repeated' = (upsertOutcome = "committed" /\ cs = chunk_batch)
    /\ upserts' = upserts + 1
    /\ upsertOutcome' = "committed"
    /\ UNCHANGED <<batchVars, searchVars, chunkVars, parseVars, inputVars>>

\* upsert_chunks(chunks, embeddings) with len(chunks) != len(embeddings): ValueError
UpsertChunksMismatch ==
    /\ upserts < MaxUpserts
    /\ \E cs \in ChunkLists : chunk_batch' = cs
    /\ upserts' = upserts + 1
    /\ upsertOutcome' = "ValueError"
    /\ repeated' = FALSE
    /\ UNCHANGED <<vulnerability_knowledge, first_batch>>
    /\ UNCHANGED <<batchVars, searchVars, chunkVars, parseVars, inputVars>>

NextStore ==
    \/ UpsertChunks
    \/ UpsertChunksMismatch

(***************************************************************************)
(* app.parser                                                              *)
(***************************************************************************)
\* \w of the regular expressions: letters, digits and the underscore
WordChars ==
    Digits \cup {"_"} \cup
    {"A", "B", "C", "D", "E", "F", "G", "H", "I", "J", "K", "L", "M", "N", "O", "P", "Q",
     "R", "S", "T", "U", "V", "W", "X", "Y", "Z"} \cup
    {"a", "b", "c", "d", "e", "f", "g", "h", "i", "j", "k", "l", "m", "n", "o", "p", "q",
     "r", "s", "t", "u", "v", "w", "x", "y", "z"}

\* \b in front of position i of t (i in 1..Len(t)+1)
Boundary(t, i) ==
    (i > 1 /\ i - 1 <= Len(t) /\ t[i - 1] \in WordChars)
        # (i >= 1 /\ i <= Len(t) /\ t[i] \in WordChars)

\* \d{n} at position i
DigitsAt(t, i, n) == i + n - 1 <= Len(t) /\ \A k \in i..(i + n - 1) : t[k] \in Digits

\* An upper-case literal at position i, under re.IGNORECASE
LiteralAt(t, i, lit) ==
    i + Len(lit) - 1 <= Len(t) /\ \A k \in 1..Len(lit) : UpperChar(t[i + k - 1]) = lit[k]

\* How many digits follow each other from position i on
RECURSIVE DigitRun(_, _)
DigitRun(t, i) == IF i <= Len(t) /\ t[i] \in Digits THEN 1 + DigitRun(t, i + 1) ELSE 0

\* MITRE_PATTERN \b(T\d{4}(?:\.\d{3})?)\b tried at position i: the last position of
\* the match, 0 when there is none
MitreEnd(t, i) ==
    IF Boundary(t, i) /\ LiteralAt(t, i, <<"T">>) /\ DigitsAt(t, i + 1, 4)
    THEN IF LiteralAt(t, i + 5, <<".">>) /\ DigitsAt(t, i + 6, 3) /\ Boundary(t, i + 9)
         THEN i + 8
         ELSE IF Boundary(t, i + 5) THEN i + 4 ELSE 0
    ELSE 0

\* \d{1,2}:\d{4}\b from position j on, the longer run of digits tried first
OwaspTail(t, j) ==
    IF DigitsAt(t, j, 2) /\ LiteralAt(t, j + 2, <<":">>) /\ DigitsAt(t, j + 3, 4)
           /\ Boundary(t, j + 7)
    THEN j + 6
    ELSE IF DigitsAt(t, j, 1) /\ LiteralAt(t, j + 1, <<":">>) /\ DigitsAt(t, j + 2, 4)
           /\ Boundary(t, j + 6)
    THEN j + 5
    ELSE 0

\* OWASP_PATTERN \b(A(?:PI)?\d{1,2}:\d{4})\b tried at position i
OwaspEnd(t, i) ==
    IF Boundary(t, i) /\ LiteralAt(t, i, <<"A">>)
    THEN IF LiteralAt(t, i + 1, <<"P", "I">>) /\ OwaspTail(t, i + 3) # 0
         THEN OwaspTail(t, i + 3)
         ELSE OwaspTail(t, i + 1)
    ELSE 0

\* CVE_PATTERN \b(CVE-\d{4}-\d{4,})\b tried at position i
CveEnd(t, i) ==
    IF Boundary(t, i) /\ LiteralAt(t, i, <<"C", "V", "E", "-">>) /\ DigitsAt(t, i + 4, 4)
           /\ LiteralAt(t, i + 8, <<"-">>) /\ DigitRun(t, i + 9) >= 4
           /\ Boundary(t, i + 9 + DigitRun(t, i + 9))
    THEN i + 8 + DigitRun(t, i + 9)
    ELSE 0

\* patterns = [(MITRE_PATTERN, "mitre"), (OWASP_PATTERN, "owasp"), (CVE_PATTERN, "cve")]
Patterns == <<"mitre", "owasp", "cve">>

PatternEnd(source, t, i) ==
    CASE source = "mitre" -> MitreEnd(t, i)
      [] source = "owasp" -> OwaspEnd(t, i)
      [] source = "cve" -> CveEnd(t, i)

NormalizeId_AsWritten(raw) == raw

\* vuln_id = match.group(1).upper()
NormalizeId(raw) == Upper(raw)

\* pattern.finditer(text) from position i on: the matches left to right, none
\* overlapping, each as the (position, vuln_id, source) appended to matches
RECURSIVE FindIter(_, _, _)
FindIter(source, t, i) ==
    IF i > Len(t) THEN <<>>
    ELSE IF PatternEnd(source, t, i) # 0
    THEN <<[position |-> i - 1,
            vuln_id |-> NormalizeId(SubSeq(t, i, PatternEnd(source, t, i))),
            source |-> source]>>
             \o FindIter(source, t, PatternEnd(source, t, i) + 1)
    ELSE FindIter(source, t, i + 1)

\* matches after the loop over patterns
AllMatches(t) == FindIter(Patterns[1], t, 1) \o FindIter(Patterns[2], t, 1)
                     \o FindIter(Patterns[3], t, 1)

SortByPosition_PatternOrder(ms) == ms

\* matches.sort(key=lambda x: x[0]): stable
SortByPosition(ms) ==
    LET Before(a, b) == ms[a].position < ms[b].position
                            \/ (ms[a].position = ms[b].position /\ a < b)
    IN  [k \in 1..Len(ms) |->
            ms[CHOOSE a \in 1..Len(ms) :
                   Cardinality({b \in 1..Len(ms) : Before(b, a)}) = k - 1]]

\* The loop that keeps the first match of every vuln_id
RECURSIVE UniqueFindings(_, _)
UniqueFindings(ms, seen_ids) ==
    IF ms = <<>> THEN <<>>
    ELSE IF Head(ms).vuln_id \in seen_ids THEN UniqueFindings(Tail(ms), seen_ids)
    ELSE <<VulnerabilityFinding(Head(ms).vuln_id, Head(ms).source, None)>>
             \o UniqueFindings(Tail(ms), seen_ids \cup {Head(ms).vuln_id})

\* Parts the report texts of the model are put together from
ReportParts ==
    { <<"T", "1", "0", "5", "9">>,
      <<"t", "1", "0", "5", "9">>,
      <<".", "0", "0", "1">>,
      <<"A", "0", "1", ":", "2", "0", "2", "1">>,
      <<"a", "p", "i", "1", ":", "2", "0", "2", "3">>,
      <<"C", "V", "E", "-", "2", "0", "2", "3", "-", "1", "2", "3", "4">>,
      <<"c", "v", "e", "-", "2", "0", "2", "3", "-", "1", "2", "3", "4">>,
      <<"5">>, <<"x">>, <<" ">>, <<",", " ">> }

ReportTexts == UNION {{Concat(p) : p \in [1..n -> ReportParts]} : n \in 0..MaxReportParts}

InitParse ==
    /\ ppc = "called"
    /\ normalized_text \in ReportTexts
    /\ matches = <<>>
    /\ extracted = <<>>
    /\ tasks = <<>>

\* findings = extract_vulnerability_ids(normalized_text)
ExtractVulnerabilityIds ==
    /\ ppc = "called"
    /\ matches' = IF normalized_text = <<>> THEN <<>>
                  ELSE SortByPosition(AllMatches(normalized_text))
    /\ extracted' = UniqueFindings(matches', {})
    /\ ppc' = "extracted"
    /\ UNCHANGED <<normalized_text, tasks>>
    /\ UNCHANGED <<batchVars, searchVars, chunkVars, storeVars, inputVars>>

\* if not findings: return []
NoFindingsExtracted ==
    /\ ppc = "extracted"
    /\ extracted = <<>>
    /\ ppc' = "returned"
    /\ UNCHANGED <<normalized_text, matches, extracted, tasks>>
    /\ UNCHANGED <<batchVars, searchVars, chunkVars, storeVars, inputVars>>

\* tasks = [analyze_with_timeout(finding, i) for i, finding in enumerate(findings)]
StartAnalyses ==
    /\ ppc = "extracted"
    /\ extracted # <<>>
    /\ tasks' = [k \in 1..Len(extracted) |-> extracted[k].id]
    /\ ppc' = "started"
    /\ UNCHANGED <<normalized_text, matches, extracted>>
    /\ UNCHANGED <<batchVars, searchVars, chunkVars, storeVars, inputVars>>

NextParse ==
    \/ ExtractVulnerabilityIds
    \/ NoFindingsExtracted
    \/ StartAnalyses

(***************************************************************************)
(* app.ingest_input                                                        *)
(***************************************************************************)
\* JSON-like values a dict payload is made of
JStr(chars) == [type |-> "str", v |-> chars]
JDict(items) == [type |-> "dict", items |-> items]
JList(items) == [type |-> "list", items |-> items]

SECRET_KEYS ==
    { <<"a", "p", "i", "_", "k", "e", "y">>,
      <<"a", "p", "i", "k", "e", "y">>,
      <<"a", "p", "i", "-", "k", "e", "y">>,
      <<"t", "o", "k", "e", "n">>,
      <<"a", "c", "c", "e", "s", "s", "_", "t", "o", "k", "e", "n">>,
      <<"a", "u", "t", "h", "_", "t", "o", "k", "e", "n">>,
      <<"b", "e", "a", "r", "e", "r", "_", "t", "o", "k", "e", "n">>,
      <<"s", "e", "c", "r", "e", "t">>,
      <<"p", "a", "s", "s", "w", "o", "r", "d">>,
      <<"p", "a", "s", "s">>,
      <<"p", "a", "s", "s", "w", "d">>,
      <<"c", "r", "e", "d", "e", "n", "t", "i", "a", "l">>,
      <<"c", "r", "e", "d", "e", "n", "t", "i", "a", "l", "s">>,
      <<"p", "r", "i", "v", "a", "t", "e", "_", "k", "e", "y">>,
      <<"p", "r", "i", "v", "a", "t", "e", "-", "k", "e", "y">>,
      <<"p", "r", "i", "v", "a", "t", "e", "k", "e", "y">>,
      <<"c", "l", "i", "e", "n", "t", "_", "s", "e", "c", "r", "e", "t">>,
      <<"c", "l", "i", "e", "n", "t", "-", "s", "e", "c", "r", "e", "t">> }

Redacted == JStr(<<"*", "*", "*", "R", "E", "D", "A", "C", "T", "E", "D", "*", "*", "*">>)

RedactValue_TopLevelOnly(key, value) ==
    IF Lower(key) \in SECRET_KEYS THEN Redacted ELSE value

\* _redact_secrets
RECURSIVE _redact_secrets(_)

\* "***REDACTED***" if k.lower() in SECRET_KEYS else _redact_secrets(v)
RedactValue(key, value) ==
    IF Lower(key) \in SECRET_KEYS THEN Redacted ELSE _redact_secrets(value)

_redact_secrets(obj) ==
    IF obj.type = "dict"
    THEN JDict([k \in 1..Len(obj.items) |->
                   <<obj.items[k][1], RedactValue(obj.items[k][1], obj.items[k][2])>>])
    ELSE IF obj.type = "list"
    THEN JList([k \in 1..Len(obj.items) |-> _redact_secrets(obj.items[k])])
    ELSE obj

\* The characters json.dumps writes for one character of a string
EscapeChar(c) ==
    CASE c = "\"" -> <<"\\", "\"">>
      [] c = "\\" -> <<"\\", "\\">>
      [] c = "\n" -> <<"\\", "n">>
      [] c = "\r" -> <<"\\", "r">>
      [] c = "\t" -> <<"\\", "t">>
      [] c = "\f" -> <<"\\", "f">>
      [] OTHER -> <<c>>

\* A string as json.dumps(..., ensure_ascii=False) writes it
DumpStr(chars) ==
    <<"\"">> \o Concat([k \in 1..Len(chars) |-> EscapeChar(chars[k])]) \o <<"\"">>

\* The indentation of nesting level lvl under indent=2
Indent(lvl) == [k \in 1..(2 * lvl) |-> " "]

\* seqs joined by sep
RECURSIVE Join(_, _)
Join(seqs, sep) ==
    IF seqs = <<>> THEN <<>>
    ELSE IF Len(seqs) = 1 THEN seqs[1]
    ELSE seqs[1] \o sep \o Join(Tail(seqs), sep)

\* json.dumps(obj, ensure_ascii=False, indent=2), obj at nesting level lvl
RECURSIVE Dumps(_, _)
Dumps(obj, lvl) ==
    IF obj.type = "str" THEN DumpStr(obj.v)
    ELSE IF obj.type = "dict"
    THEN IF obj.items = <<>> THEN <<"{", "}">>
         ELSE <<"{", "\n">>
                  \o Join([k \in 1..Len(obj.items) |->
                               Indent(lvl + 1) \o DumpStr(obj.items[k][1]) \o <<":", " ">>
                                   \o Dumps(obj.items[k][2], lvl + 1)],
                          <<",", "\n">>)
                  \o <<"\n">> \o Indent(lvl) \o <<"}">>
    ELSE IF obj.items = <<>> THEN <<"[", "]">>
         ELSE <<"[", "\n">>
                  \o Join([k \in 1..Len(obj.items) |->
                               Indent(lvl + 1) \o Dumps(obj.items[k], lvl + 1)],
                          <<",", "\n">>)
                  \o <<"\n">> \o Indent(lvl) \o <<"]">>

\* The characters of t at the positions that satisfy Keep, in order
\* re.sub(r"\r\n?|\f", "\n", t): every \r and \f becomes \n, and the \n of a \r\n goes
NormalizeLineEndings(t) ==
    LET Keep(k) == ~(t[k] = "\n" /\ k > 1 /\ t[k - 1] = "\r")
        kept == SelectSeq([k \in 1..Len(t) |-> k], Keep)
    IN  [j \in 1..Len(kept) |-> IF t[kept[j]] \in {"\r", "\f"} THEN "\n" ELSE t[kept[j]]]

\* re.sub(r"\n{3,}", "\n\n", t): of a run of three or more \n the first two stay
CollapseNewlines(t) ==
    LET Keep(k) == ~(t[k] = "\n" /\ k > 2 /\ t[k - 1] = "\n" /\ t[k - 2] = "\n")
        kept == SelectSeq([k \in 1..Len(t) |-> k], Keep)
    IN  [j \in 1..Len(kept) |-> t[kept[j]]]

\* "\n".join(line.rstrip() for line in t.split("\n"))
RStripLines(t) ==
    Join([k \in 1..Len(Split(t, <<"\n">>)) |-> RStrip(Split(t, <<"\n">>)[k])], <<"\n">>)

\* The three normalisation steps of handle_scan_input, in its order
NormalizeText(t) == RStripLines(CollapseNewlines(NormalizeLineEndings(t)))

InvalidScanInputError == "InvalidScanInputError"

\* handle_scan_input(payload): the text returned or the exception raised
handle_scan_input(payload) ==
    IF payload = None THEN Raise(InvalidScanInputError)
    ELSE IF payload.type \notin {"dict", "str"} THEN Raise(InvalidScanInputError)
    ELSE LET normalized == IF payload.type = "dict"
                           THEN Dumps(_redact_secrets(payload), 0)
                           ELSE Strip(payload.v)
         IN  IF normalized = <<>> THEN Raise(InvalidScanInputError)
             ELSE Return(NormalizeText(normalized))

\* Dict payloads with value v stored at one place, under the key and at the depth
\* of shape n
PayloadShape(n, v) ==
    CASE n = 1 -> JDict(<< <<<<"p", "a", "s", "s", "w", "o", "r", "d">>, v>>, <<<<"i", "d">>, JStr(<<"T", "1", "0", "5", "9">>)>> >>)
      [] n = 2 -> JDict(<< <<<<"s", "c", "a", "n">>, JDict(<< <<<<"T", "o", "k", "e", "n">>, v>> >>)>> >>)
      [] n = 3 -> JDict(<< <<<<"i", "t", "e", "m", "s">>,
                            JList(<<JDict(<< <<<<"a", "p", "i", "_", "k", "e", "y">>, v>> >>), JStr(<<"A", "0", "1">>)>>)>> >>)
      [] n = 4 -> JDict(<< <<<<"i", "t", "e", "m", "s">>,
                            JList(<<JList(<<JDict(<< <<<<"S", "E", "C", "R", "E", "T">>, v>> >>)>>)>>)>> >>)
      [] n = 5 -> JDict(<< <<<<"n", "o", "t", "e">>, v>> >>)

\* Shapes 1..4 store v under a secret key, shape 5 under a key that is not secret
SecretShapes == 1..4
Shapes == 1..5

StoredValues ==
    { JStr(<<"p", "w">>), JStr(<<"x", "\n", "y">>), JList(<<>>),
      JDict(<< <<<<"p", "a", "s", "s">>, JStr(<<"p", "w">>)>> >>) }

\* Parts the string payloads of the model are put together from
InputParts ==
    { <<"a">>, <<"a", "\n">>, <<"\n", "b">>, <<"\n">>, <<"\n", "\n">>, <<" ", "\n">>,
      <<"\r">>, <<"\r", "\n">>, <<"\f">>, <<" ">>, <<"\t">> }

InputTexts == UNION {{Concat(p) : p \in [1..n -> InputParts]} : n \in 0..MaxInputParts}

\* The calls of one behaviour: one string (or None, or a value of another type),
\* or two dict payloads of the same shape
PayloadLists ==
    {<<Str(t)>> : t \in InputTexts}
        \cup {<<None>>, <<[type |-> "int"]>>, <<JDict(<<>>)>>}
        \cup {<<PayloadShape(n, v), PayloadShape(n, w)>> :
                  n \in Shapes, v \in StoredValues, w \in StoredValues}

InitInput ==
    /\ payloads \in PayloadLists
    /\ handled = [k \in 1..Len(payloads) |-> NotYet]

\* One call handle_scan_input(payloads[k])
HandleScanInput(k) ==
    /\ handled[k] = NotYet
    /\ handled' = [handled EXCEPT ![k] = handle_scan_input(payloads[k])]
    /\ UNCHANGED payloads
    /\ UNCHANGED <<batchVars, searchVars, chunkVars, storeVars, parseVars>>

NextInput == \E k \in 1..Len(payloads) : HandleScanInput(k)

(***************************************************************************)
(* Specifications                                                          *)
(***************************************************************************)
IdleBatch ==
    /\ bpc = "idle"
    /\ findings = <<>>
    /\ max_concurrent = 0
    /\ semaphore = 0
    /\ taskState = <<>>
    /\ taskResult = <<>>
    /\ completed = <<>>
    /\ results = <<>>
    /\ errors = <<>>
    /\ returned = NotYet

IdleSearch ==
    /\ spc = "idle"
    /\ entry = "none"
    /\ store = {}
    /\ vulnerability_id = <<>>
    /\ top_k = 0
    /\ similarity_threshold = 0
    /\ calls = <<>>
    /\ vulnerability_info = EmptyDict
    /\ finding = NotYet
    /\ distance = <<>>
    /\ chunks_data = <<>>
    /\ svcOutcome = NotYet
    /\ toolOutcome = NotYet

IdleChunk ==
    /\ cpc = "idle"
    /\ text = <<>>
    /\ max_tokens = 0
    /\ min_tokens = 0
    /\ overlap_tokens = 0
    /\ split_chunks = <<>>
    /\ text_chunks = <<>>
    /\ doc_chunks = <<>>

IdleStore ==
    /\ vulnerability_knowledge = <<>>
    /\ chunk_batch = <<>>
    /\ first_batch = <<>>
    /\ upserts = 0
    /\ upsertOutcome = "idle"
    /\ repeated = FALSE

IdleParse ==
    /\ ppc = "idle"
    /\ normalized_text = <<>>
    /\ matches = <<>>
    /\ extracted = <<>>
    /\ tasks = <<>>

IdleInput ==
    /\ payloads = <<>>
    /\ handled = <<>>

Init == InitBatch /\ IdleSearch /\ IdleChunk /\ IdleStore /\ IdleParse /\ IdleInput

Spec == Init /\ [][Next]_vars

\* The event loop runs every coroutine that is ready: the call itself, the acquire of
\* a waiting task while a permit is free, and gather's continuation. Every admitted
\* analysis ends: asyncio.wait_for returns, raises the analysis's exception or raises
\* TimeoutError after timeout_per_analysis.
Fairness ==
    /\ WF_vars(ReturnNoFindings)
    /\ WF_vars(CreateTasks)
    /\ WF_vars(\E k \in 1..Len(findings) : Admit(k))
    /\ \A k \in 1..MaxFindings :
          WF_vars((k \in 1..Len(findings)) /\
                  (AnalysisSucceeds(k) \/ AnalysisTimesOut(k) \/ AnalysisFails(k)))
    /\ WF_vars(CollectAndReturn)

SpecFair == Init /\ [][Next]_vars /\ Fairness

InitSearchCall == InitSearch /\ IdleBatch /\ IdleChunk /\ IdleStore /\ IdleParse /\ IdleInput

InitChunkCall == InitChunk /\ IdleBatch /\ IdleSearch /\ IdleStore /\ IdleParse /\ IdleInput

InitStoreCall == InitStore /\ IdleBatch /\ IdleSearch /\ IdleChunk /\ IdleParse /\ IdleInput

InitParseCall ==
    InitParse /\ IdleBatch /\ IdleSearch /\ IdleChunk /\ IdleStore /\ IdleInput

InitInputCall ==
    InitInput /\ IdleBatch /\ IdleSearch /\ IdleChunk /\ IdleStore /\ IdleParse

SpecInput == InitInputCall /\ [][NextInput]_vars

SpecParse == InitParseCall /\ [][NextParse]_vars

SpecStore == InitStoreCall /\ [][NextStore]_vars

SpecChunk == InitChunkCall /\ [][NextChunk]_vars

SpecSearch == InitSearchCall /\ [][NextSearch]_vars

InitWideSearchCall ==
    InitWideSearch /\ IdleBatch /\ IdleChunk /\ IdleStore /\ IdleParse /\ IdleInput

SpecWideSearch == InitWideSearchCall /\ [][NextWideSearch]_vars

(***************************************************************************)
(* Properties of analyze_scan_report (checked under Spec)                  *)
(***************************************************************************)
InFlight == {k \in 1..Len(taskState) : taskState[k] = "running"}
Waiting == {k \in 1..Len(taskState) : taskState[k] = "waiting"}
Succeeded(k) == taskState[k] = "returned" /\ taskResult[k][2] # None
Failed(k) == taskState[k] = "returned" /\ taskResult[k][3] # None
TimedOut(k) == Failed(k) /\ taskResult[k][3].error[1] = "Analysis timeout for"
Tasks == 1..Len(taskResult)

\* Position of task k in the order of completion
CompletedAt(k) == CHOOSE p \in 1..Len(completed) : completed[p] = k

\* C1: the number of analyses in flight (admitted by the semaphore and not yet
\* finished) never exceeds max_concurrent, whatever the number of findings and the
\* interleaving of completions, failures and timeouts.
C1_ConcurrencyCeiling == Cardinality(InFlight) <= max_concurrent

\* C1 witness: after a timeout, the gate is full and another finding waits for it.
C1_Witness ==
    /\ bpc = "gather"
    /\ \E k \in Tasks : TimedOut(k)
    /\ Cardinality(InFlight) = max_concurrent
    /\ Waiting # {}

\* C2: the returned list follows the findings' first-appearance order: if findings
\* i and j both succeed and i comes before j, the result for i precedes the result
\* for j, whatever the order of completion.
C2_ResultOrder ==
    bpc = "returned" =>
        \A i, j \in Tasks :
            (i < j /\ Succeeded(i) /\ Succeeded(j)) =>
                \E p, q \in 1..Len(returned.value) :
                    /\ p < q
                    /\ returned.value[p].vulnerability_id = findings[i]
                    /\ returned.value[q].vulnerability_id = findings[j]

\* C2 witness: two analyses succeeded, the later finding finished first, and the
\* batch has returned.
C2_Witness ==
    /\ bpc = "returned"
    /\ \E i, j \in Tasks :
          i < j /\ Succeeded(i) /\ Succeeded(j) /\ CompletedAt(j) < CompletedAt(i)

\* C3: a timeout or an exception in one analysis affects that identifier only: when
\* the batch returns, every finding has been analysed (admitted and run to one of
\* its exits) and every analysis that succeeded is in the returned list.
C3_FailureIsolation ==
    (bpc = "returned" /\ findings # <<>>) =>
        /\ returned.kind = "return"
        /\ \A k \in 1..Len(findings) : k \in Range(completed)
        /\ \A k \in 1..Len(findings) :
              Succeeded(k) => Analysis(findings[k]) \in Range(returned.value)

\* C3 witness: a batch returned in which one analysis timed out, one raised, and a
\* finding after a failed one succeeded.
C3_Witness ==
    /\ bpc = "returned"
    /\ \E k \in Tasks : TimedOut(k)
    /\ \E k \in Tasks : Failed(k) /\ ~TimedOut(k)
    /\ \E i, j \in Tasks : i < j /\ Failed(i) /\ Succeeded(j)

\* C4: when the batch finishes every finding is accounted for exactly once, as a
\* result or as an error entry carrying its id and a reason; in particular
\* len(results) + len(errors) = len(findings).
C4_AllAccounted ==
    bpc = "returned" =>
        /\ Len(results) + Len(errors) = Len(findings)
        /\ \A k \in 1..Len(findings) :
              LET inResults == {p \in 1..Len(results) :
                                   results[p].vulnerability_id = findings[k]}
                  inErrors == {p \in 1..Len(errors) : errors[p].id = findings[k]}
              IN  Cardinality(inResults) + Cardinality(inErrors) = 1
        /\ \A p \in 1..Len(errors) :
              DOMAIN errors[p] = {"id", "error"} /\ errors[p].error # <<>>

\* C4 witness: a finished batch with a timed-out analysis and a successful one.
C4_Witness ==
    /\ bpc = "returned"
    /\ \E k \in Tasks : TimedOut(k)
    /\ \E k \in Tasks : Succeeded(k)

PartialFailure == bpc = "returned" /\ results # <<>> /\ errors # <<>>

\* The failures the return value hands to the caller
SurfacedFailures(ret) == IF "failures" \in DOMAIN ret THEN ret.failures ELSE <<>>

\* C5 as stated: on a partial failure the caller gets two parallel collections, the
\* successes and the failures-with-reason.
C5_TwoCollectionsSurfaced ==
    PartialFailure =>
        /\ returned.kind = "return"
        /\ returned.value = results
        /\ SurfacedFailures(returned) = errors

\* C5 amended: on a partial failure the call returns (it never raises), the caller
\* gets exactly the successes, in extraction order, and the failures-with-reason
\* are kept in the separate errors list, which is logged and not returned.
C5_SuccessesReturnedFailuresLogged ==
    PartialFailure =>
        /\ returned.kind = "return"
        /\ returned.value = results
        /\ results = [p \in 1..Len(results) |->
                          Analysis(findings[CHOOSE k \in Tasks :
                              Cardinality({m \in 1..k : Succeeded(m)}) = p /\ Succeeded(k)])]
        /\ \A k \in Tasks : Failed(k) => taskResult[k][3] \in Range(errors)
        /\ SurfacedFailures(returned) = <<>>

\* C5 witness: a batch returned with at least one success and one failure.
C5_Witness ==
    /\ PartialFailure
    /\ returned.kind = "return"
    /\ Len(results) + Len(errors) = Len(findings)

(***************************************************************************)
(* Properties of search_vulnerability_knowledge (checked under SpecSearch)  *)
(***************************************************************************)
ServiceFinished == spc \in {"returned", "raised", "tool_done"}
ServiceReturned == ServiceFinished /\ svcOutcome.kind = "return"
ServiceRaised == ServiceFinished /\ svcOutcome.kind = "raise"
Exact(d) == d.vulnerability_id = vulnerability_id

\* The stored row a returned dict was built from
RowOf(d) == CHOOSE r \in store : r.content = d.content

IsEmptyContext(ctx) ==
    /\ ctx.type = "RetrievedContext"
    /\ ctx.finding.id = vulnerability_id
    /\ ctx.retrieved_chunks = <<>>
    /\ ctx.source_urls = <<>>
    /\ ctx.similarity_scores = <<>>

\* C6 as stated: when the retrieval service raises, the agent tool returns an empty
\* RetrievedContext (no chunks, no URLs, no scores) for the identifier instead of
\* raising.
C6_ToolReturnsEmptyContext ==
    (spc = "tool_done" /\ svcOutcome.kind = "raise") =>
        (toolOutcome.kind = "return" /\ IsEmptyContext(toolOutcome.value))

\* C7: in the rows the hybrid search returns, every exact-id row precedes every row
\* with another id whatever their distances, and within each of the two groups the
\* rows are in ascending distance.
C7_ExactFirstThenDistance ==
    ServiceReturned =>
        \A i, j \in 1..Len(chunks_data) :
            i < j =>
                /\ Exact(chunks_data[j]) => Exact(chunks_data[i])
                /\ (Exact(chunks_data[i]) <=> Exact(chunks_data[j])) =>
                      distance[RowOf(chunks_data[i])] <= distance[RowOf(chunks_data[j])]

\* C7 witness: an exact-id row is returned ahead of a closer row with another id,
\* and two rows of one group are returned at different distances.
C7_Witness ==
    /\ ServiceReturned
    /\ \E i, j \in 1..Len(chunks_data) :
          /\ i < j
          /\ Exact(chunks_data[i]) /\ ~Exact(chunks_data[j])
          /\ distance[RowOf(chunks_data[i])] > distance[RowOf(chunks_data[j])]
    /\ \E i, j \in 1..Len(chunks_data) :
          /\ i < j
          /\ Exact(chunks_data[i]) <=> Exact(chunks_data[j])
          /\ distance[RowOf(chunks_data[i])] < distance[RowOf(chunks_data[j])]

\* C8: the search returns at most top_k rows, each an exact-id match or at least
\* similarity_threshold similar, and the threshold does not exclude an exact-id row:
\* if the store holds an exact-id row and top_k >= 1, the first row is an exact one.
C8_TopKThresholdExact ==
    ServiceReturned =>
        /\ Len(chunks_data) <= top_k
        /\ \A i \in 1..Len(chunks_data) :
              Exact(chunks_data[i]) \/ chunks_data[i].similarity_score >= similarity_threshold
        /\ ((\E r \in store : r.vulnerability_id = vulnerability_id) /\ top_k >= 1) =>
              (Len(chunks_data) >= 1 /\ Exact(chunks_data[1]))

\* C8 witness: the only exact-id row is below the threshold, a row with another id is
\* above it, top_k cuts the result, and the exact-id row is the one returned.
C8_Witness ==
    /\ ServiceReturned
    /\ top_k = 1
    /\ Len(chunks_data) = 1
    /\ Exact(chunks_data[1])
    /\ chunks_data[1].similarity_score < similarity_threshold
    /\ \E r \in store :
          r.vulnerability_id # vulnerability_id
          /\ Similarity(distance[r]) >= similarity_threshold

CallOrder == <<"fetchrow", "embeddings.create", "fetch">>

\* C9: the calls go out in the order metadata lookup, query embedding, vector search,
\* each at most once (no retry); a call that raises is the last one issued, its
\* error propagates and no RetrievedContext is returned; in particular no vector
\* search follows a failed embedding request.
C9_OrderAndPropagation ==
    /\ Len(calls) <= Len(CallOrder)
    /\ \A n \in 1..Len(calls) : calls[n][1] = CallOrder[n]
    /\ \A n \in 1..Len(calls) :
          calls[n][2] = "raised" =>
              /\ n = Len(calls)
              /\ ServiceFinished
              /\ svcOutcome.kind = "raise"
              /\ svcOutcome.exc = (IF calls[n][1] = "embeddings.create"
                                    THEN "EmbeddingError" ELSE "StoreError")

\* C9 witness: the embedding request failed after the metadata lookup.
C9_Witness ==
    /\ Len(calls) = 2
    /\ calls[2] = <<"embeddings.create", "raised">>
    /\ svcOutcome = Raise("EmbeddingError")

\* C11 as stated: source inference is case-insensitive (an identifier and its
\* re-casings get the same taxonomy) and always gives owasp, mitre, cve or custom.
C11_InferSourceCaseInsensitive ==
    finding \notin {NotYet, ValidationError} =>
        /\ finding.source \in SourcePattern
        /\ finding.source = _infer_source(Upper(vulnerability_id))
        /\ finding.source = _infer_source(Lower(vulnerability_id))

\* C12: in every RetrievedContext the service returns, retrieved_chunks and
\* similarity_scores have one entry per returned row, and entry i of each comes from
\* row i of the search's ranking.
C12_ChunksScoresAligned ==
    ServiceReturned =>
        LET ctx == svcOutcome.value
        IN  /\ Len(ctx.retrieved_chunks) = Len(ctx.similarity_scores)
            /\ Len(ctx.retrieved_chunks) = Len(chunks_data)
            /\ \A i \in 1..Len(chunks_data) :
                  /\ ctx.retrieved_chunks[i] = chunks_data[i].content
                  /\ ctx.similarity_scores[i] =
                        Similarity(distance[RowOf(chunks_data[i])])

\* C12 witness: a context with two rows whose scores are not in descending order
\* (an exact-id row ranked ahead of a more similar row).
C12_Witness ==
    /\ ServiceReturned
    /\ Len(svcOutcome.value.retrieved_chunks) >= 2
    /\ svcOutcome.value.similarity_scores[1] < svcOutcome.value.similarity_scores[2]

\* C10 as stated: when the metadata lookup finds a stored chunk for the id, the
\* returned finding carries the source taxonomy the lookup recovered.
C10_SourceFromLookup ==
    (ServiceReturned /\ DOMAIN vulnerability_info # {}) =>
        svcOutcome.value.finding.source = vulnerability_info.source

(***************************************************************************)
(* Claims about the chunker                                                *)
(***************************************************************************)
\* split_text has been called on the (non-blank) text of this chunk_document call
SplitDone == cpc \in {"split", "overlapped", "returned"} /\ Strip(text) # <<>>

\* No separator of the cascade occurs in t: _recursive_split ends in _character_split(t)
NoSeparatorIn(t) ==
    \A si \in 1..Len(Separators) : Separators[si] # <<>> => Find(t, Separators[si]) = 0

\* C13: a non-blank text whose estimated token count is at most max_tokens, below
\* min_tokens or not, is returned by split_text as exactly one chunk, text.strip();
\* a blank or whitespace-only text gives the empty sequence.
C13_ShortTextOneChunk ==
    /\ Strip(text) = <<>> => split_text(text, max_tokens, min_tokens) = <<>>
    /\ (SplitDone /\ estimate_tokens(text) <= max_tokens) => split_chunks = <<Strip(text)>>

C13_Witness ==
    /\ SplitDone
    /\ estimate_tokens(text) <= max_tokens
    /\ estimate_tokens(text) < min_tokens
    /\ Strip(text) # text
    /\ split_chunks = <<Strip(text)>>

\* C14: no chunk returned by split_text is empty or whitespace-only, whichever
\* separator level or the character-level fallback produced it.
C14_NoBlankChunk ==
    SplitDone => \A k \in 1..Len(split_chunks) : Strip(split_chunks[k]) # <<>>

C14_Witness ==
    /\ SplitDone
    /\ estimate_tokens(text) > max_tokens
    /\ NoSeparatorIn(text)
    /\ \E k \in 1..Len(CharacterSlices(text, estimate_chars_for_tokens(max_tokens))) :
          Strip(CharacterSlices(text, estimate_chars_for_tokens(max_tokens))[k]) = <<>>
    /\ Len(split_chunks) >= 2

\* C15: every chunk split_text returns, before any overlap is added, has an
\* estimated token count of at most max_tokens.
C15_ChunkWithinBudget ==
    SplitDone => \A k \in 1..Len(split_chunks) : estimate_tokens(split_chunks[k]) <= max_tokens

C15_Witness ==
    /\ SplitDone
    /\ Len(split_chunks) >= 2
    /\ ~NoSeparatorIn(text)
    /\ \E k \in 1..Len(split_chunks) :
          Len(split_chunks[k]) = estimate_chars_for_tokens(max_tokens) + CharsPerToken - 1

\* create_overlapping_chunks has run on the chunks split_text returned
OverlapRan ==
    /\ cpc \in {"overlapped", "returned"}
    /\ Len(split_chunks) > 1
    /\ overlap_tokens > 0

\* text_chunks[i] is split_chunks[i] with a non-empty suffix of its predecessor
\* (and the joining space) put in front of it
ExtendedWithSuffix(i) ==
    \E n \in 1..Len(split_chunks[i - 1]) :
        text_chunks[i] = LastChars(split_chunks[i - 1], n) \o <<" ">> \o split_chunks[i]

\* C16 as stated: for n > 1 chunks and overlap_tokens > 0 the overlap step returns
\* n chunks, chunk 0 unchanged and every later chunk extended at its start with a
\* non-empty suffix of its predecessor; so every chunk marked overlap_pre = True
\* was actually extended.
C16_EveryLaterChunkExtended ==
    /\ OverlapRan =>
          /\ Len(text_chunks) = Len(split_chunks)
          /\ text_chunks[1] = split_chunks[1]
          /\ \A i \in 2..Len(text_chunks) : ExtendedWithSuffix(i)
    /\ (cpc = "returned" /\ doc_chunks # <<>>) =>
          \A k \in 1..Len(doc_chunks) :
              doc_chunks[k].overlap_pre => (k > 1 /\ ExtendedWithSuffix(k))

\* C17 as stated: every chunk chunk_document returns has
\* token_count <= max_tokens + overlap_tokens.
C17_WithinMaxPlusOverlap ==
    cpc = "returned" =>
        \A k \in 1..Len(doc_chunks) :
            doc_chunks[k].token_count <= max_tokens + overlap_tokens

\* C17 amended: every chunk chunk_document returns has
\* token_count <= max_tokens + overlap_tokens + 1, and a chunk that received no
\* overlap (the first one, or any when overlap_tokens = 0) has token_count <= max_tokens.
C17_WithinMaxPlusOverlapPlusOne ==
    cpc = "returned" =>
        \A k \in 1..Len(doc_chunks) :
            /\ doc_chunks[k].token_count <= max_tokens + overlap_tokens + 1
            /\ (k = 1 \/ overlap_tokens = 0) => doc_chunks[k].token_count <= max_tokens

C17_Witness ==
    /\ cpc = "returned"
    /\ OverlapRan
    /\ \E k \in 2..Len(doc_chunks) :
          /\ doc_chunks[k].token_count = max_tokens + overlap_tokens + 1
          /\ estimate_tokens(split_chunks[k]) = max_tokens

\* The previous chunk of chunk i is longer than the overlap size
PrevLongerThanOverlap(i) ==
    Len(split_chunks[i - 1]) > estimate_chars_for_tokens(overlap_tokens)

\* The overlap text in front of chunk i (followed by the joining space)
Prepended(i) == SubSeq(text_chunks[i], 1, Len(text_chunks[i]) - Len(split_chunks[i]) - 1)

\* Where in the previous chunk the overlap text of chunk i begins
OverlapStart(i) == Len(split_chunks[i - 1]) - Len(Prepended(i)) + 1

\* The last overlap_chars characters of the previous chunk of chunk i
OverlapWindow(i) == LastChars(split_chunks[i - 1], estimate_chars_for_tokens(overlap_tokens))

\* Position s of t lies inside a word: a word character with a word character before it
MidWord(t, s) ==
    /\ s > 1
    /\ s <= Len(t)
    /\ t[s] \notin Whitespace
    /\ t[s - 1] \notin Whitespace

\* C18 as stated: for every previous chunk longer than the overlap size, the overlap
\* text put in front of a chunk starts at a word boundary of the previous chunk,
\* never in the middle of a word.
C18_OverlapNeverMidWord ==
    OverlapRan =>
        \A i \in 2..Len(text_chunks) :
            PrevLongerThanOverlap(i) => ~MidWord(split_chunks[i - 1], OverlapStart(i))

\* C18 amended: for every previous chunk longer than the overlap size, when the last
\* overlap_chars characters of the previous chunk contain a space the overlap text
\* starts at a word boundary; when they contain none the overlap text is those
\* characters as they are (and may begin inside a word).
C18_OverlapAtBoundaryWhenSpace ==
    OverlapRan =>
        \A i \in 2..Len(text_chunks) :
            PrevLongerThanOverlap(i) =>
                /\ Find(OverlapWindow(i), <<" ">>) # 0 =>
                      ~MidWord(split_chunks[i - 1], OverlapStart(i))
                /\ Find(OverlapWindow(i), <<" ">>) = 0 => Prepended(i) = OverlapWindow(i)

C18_Witness ==
    /\ OverlapRan
    /\ \E i \in 2..Len(text_chunks) :
          /\ PrevLongerThanOverlap(i)
          /\ Find(OverlapWindow(i), <<" ">>) > 1
          /\ MidWord(split_chunks[i - 1],
                     Len(split_chunks[i - 1]) - estimate_chars_for_tokens(overlap_tokens) + 1)
          /\ Prepended(i) # <<>>
          /\ ~MidWord(split_chunks[i - 1], OverlapStart(i))

\* C19: when chunk_document yields n > 1 chunks with overlap_tokens > 0, chunk 0 has
\* overlap_pre = False and overlap_post = True, chunk n-1 has overlap_pre = True and
\* overlap_post = False and every chunk in between has both True; with
\* overlap_tokens = 0, or n = 1, every flag of every chunk is False.
C19_OverlapFlags ==
    cpc = "returned" =>
        LET n == Len(doc_chunks)
        IN  \A k \in 1..n :
                IF n > 1 /\ overlap_tokens > 0
                THEN /\ doc_chunks[k].overlap_pre = (k # 1)
                     /\ doc_chunks[k].overlap_post = (k # n)
                ELSE /\ doc_chunks[k].overlap_pre = FALSE
                     /\ doc_chunks[k].overlap_post = FALSE

C19_Witness ==
    /\ cpc = "returned"
    /\ Len(doc_chunks) >= 3
    /\ overlap_tokens > 0
    /\ ~doc_chunks[1].overlap_pre
    /\ doc_chunks[2].overlap_pre
    /\ doc_chunks[2].overlap_post
    /\ ~doc_chunks[Len(doc_chunks)].overlap_post

\* C20: the order_index values of the chunks one chunk_document call returns are
\* exactly 0, 1, ..., n-1 in list order, and blank text yields the empty list.
C20_OrderIndexDense ==
    cpc = "returned" =>
        /\ \A k \in 1..Len(doc_chunks) : doc_chunks[k].order_index = k - 1
        /\ Strip(text) = <<>> => doc_chunks = <<>>

C20_Witness ==
    /\ cpc = "returned"
    /\ Len(doc_chunks) >= 3
    /\ doc_chunks[1].order_index = 0
    /\ doc_chunks[Len(doc_chunks)].order_index = Len(doc_chunks) - 1

(***************************************************************************)
(* Claims about the vector store                                           *)
(***************************************************************************)
\* Two chunks agree on source, vulnerability_id, order_index and content
SameFour(c, d) ==
    /\ c.source = d.source
    /\ c.vulnerability_id = d.vulnerability_id
    /\ c.order_index = d.order_index
    /\ c.content = d.content

\* How many of the four hashed fields differ between two chunks
FieldsDiffering(c, d) ==
    Cardinality({f \in {"source", "vulnerability_id", "order_index", "content"} : c[f] # d[f]})

\* The stored rows as a set, without their ids
StoredRows == Range(vulnerability_knowledge)

\* The row stored under the hash of chunk c
StoredFor(c) ==
    {r \in StoredRows : r.content_hash = _compute_content_hash(c)}

NoDuplicateHash ==
    \A i, j \in 1..Len(vulnerability_knowledge) :
        vulnerability_knowledge[i].content_hash = vulnerability_knowledge[j].content_hash
            => i = j

\* C21: the content hash is a function of (source, vulnerability_id, order_index,
\* content): chunks equal in the four fields get the same hash, and chunks that
\* differ in exactly one of them get different hashes.
C21_HashDeterministicAndSensitive ==
    upsertOutcome = "committed" =>
        \A i, j \in 1..Len(chunk_batch) :
            LET c == chunk_batch[i]
                d == chunk_batch[j]
            IN  /\ StoredFor(c) # {}
                /\ SameFour(c, d) => StoredFor(c) = StoredFor(d)
                /\ FieldsDiffering(c, d) = 1 => StoredFor(c) \cap StoredFor(d) = {}

C21_Witness ==
    /\ upsertOutcome = "committed"
    /\ Len(chunk_batch) = 2
    /\ FieldsDiffering(chunk_batch[1], chunk_batch[2]) = 1
    /\ chunk_batch[1].source # chunk_batch[2].source
    /\ Len(vulnerability_knowledge) = 2

C30_DistinctChunksDistinctHashInputs ==
    upsertOutcome = "committed" =>
        \A i, j \in 1..Len(chunk_batch) :
            ~SameFour(chunk_batch[i], chunk_batch[j]) =>
                /\ HashInput(chunk_batch[i]) # HashInput(chunk_batch[j])
                /\ StoredFor(chunk_batch[i]) \cap StoredFor(chunk_batch[j]) = {}

(***************************************************************************)
(* Claims about the parser                                                 *)
(***************************************************************************)
\* extract_vulnerability_ids has returned
ParseDone == ppc \in {"extracted", "started", "returned"}

\* The places of normalized_text where identifier id is written (in any case) as a
\* match of one of the patterns, as 0-based positions
Occurrences(id) ==
    {i - 1 : i \in {j \in 1..Len(normalized_text) :
                      \E src \in Range(Patterns) :
                          /\ PatternEnd(src, normalized_text, j) = j + Len(id) - 1
                          /\ Upper(SubSeq(normalized_text, j, j + Len(id) - 1)) = id}}

FirstOccurrence(id) == CHOOSE i \in Occurrences(id) : \A j \in Occurrences(id) : i <= j

\* C23: the findings extract_vulnerability_ids returns have pairwise distinct ids
\* after upper-casing, stand in the order of the first occurrence of each id in the
\* text and carry the taxonomy of the pattern that matched; analyze_scan_report
\* creates exactly one analysis per distinct identifier.
C23_DistinctOrderedTagged ==
    ParseDone =>
        /\ \A k, l \in 1..Len(extracted) :
              Upper(extracted[k].id) = Upper(extracted[l].id) => k = l
        /\ {extracted[k].id : k \in 1..Len(extracted)}
              = {matches[m].vuln_id : m \in 1..Len(matches)}
        /\ \A k \in 1..Len(extracted) :
              /\ Occurrences(extracted[k].id) # {}
              /\ PatternEnd(extracted[k].source, normalized_text,
                            FirstOccurrence(extracted[k].id) + 1) # 0
        /\ \A k, l \in 1..Len(extracted) :
              k < l => FirstOccurrence(extracted[k].id) < FirstOccurrence(extracted[l].id)
        /\ ppc = "started" =>
              /\ tasks = [k \in 1..Len(extracted) |-> extracted[k].id]
              /\ Len(tasks) = Cardinality({matches[m].vuln_id : m \in 1..Len(matches)})

C23_Witness ==
    /\ ppc = "started"
    /\ Len(matches) = 2
    /\ Len(tasks) = 1
    /\ Cardinality(Occurrences(tasks[1])) = 2
    /\ SubSeq(normalized_text, 1, Len(tasks[1])) # tasks[1]

(***************************************************************************)
(* Claims about handle_scan_input                                          *)
(***************************************************************************)
\* Call k has been made and returned a text
ReturnedText(k) == handled[k] # NotYet /\ handled[k].kind = "return"

\* The two payloads have one shape and differ at most in the value stored under
\* its secret key
TwinsUnderSecretKey ==
    /\ Len(payloads) = 2
    /\ \E n \in SecretShapes, v \in StoredValues, w \in StoredValues :
          payloads = <<PayloadShape(n, v), PayloadShape(n, w)>>

\* sub occurs in t
Contains(t, sub) == Find(t, sub) # 0

\* C24: for a dict payload the value of every key whose lower-cased name is in
\* SECRET_KEYS is replaced by '***REDACTED***' at every depth of dicts and lists, so
\* two payloads that differ only in those values give the same normalized output.
C24_SecretValuesDoNotShow ==
    (TwinsUnderSecretKey /\ handled[1] # NotYet /\ handled[2] # NotYet) =>
        /\ ReturnedText(1)
        /\ handled[1] = handled[2]
        /\ Contains(handled[1].value, DumpStr(Redacted.v))

C24_Witness ==
    /\ TwinsUnderSecretKey
    /\ payloads[1] # payloads[2]
    /\ \E v \in StoredValues : payloads[1] = PayloadShape(4, v)
    /\ ReturnedText(1)
    /\ ReturnedText(2)
    /\ handled[1] = handled[2]

\* C25 as stated: the text handle_scan_input returns for a string holds no carriage
\* return or form feed, no line with trailing whitespace and never three or more
\* consecutive newlines.
C25_NormalizedTextClean ==
    \A k \in 1..Len(payloads) :
        (payloads[k].type = "str" /\ ReturnedText(k)) =>
            LET out == handled[k].value
            IN  /\ \A i \in 1..Len(out) : out[i] \notin {"\r", "\f"}
                /\ \A i \in 1..Len(out) :
                      (out[i] \in Whitespace \ {"\n"}) => (i < Len(out) /\ out[i + 1] # "\n")
                /\ ~Contains(out, <<"\n", "\n", "\n">>)

(***************************************************************************)
(* Claims about the content split_text keeps                               *)
(***************************************************************************)
\* t with all whitespace removed
WithoutWhitespace(t) == SelectSeq(t, LAMBDA c : c \notin Whitespace)

\* split_text had to cut the text: it did not fit max_tokens
TextWasCut == SplitDone /\ estimate_tokens(text) > max_tokens

\* C26: split_text loses and reorders no content: the returned chunks concatenated in
\* order, with all whitespace removed, equal the input text with all whitespace
\* removed; nothing is duplicated before overlaps are added.
C26_SplitKeepsContent ==
    (cpc # "called") =>
        WithoutWhitespace(Concat(split_chunks)) = WithoutWhitespace(text)

C26_Witness ==
    /\ TextWasCut
    /\ Len(split_chunks) >= 3
    /\ Find(text, <<".", " ">>) # 0
    /\ Len(Concat(split_chunks)) < Len(text)
    /\ WithoutWhitespace(Concat(split_chunks)) = WithoutWhitespace(text)

(***************************************************************************)
(* Claims about admission, timeouts and termination of analyze_scan_report *)
(***************************************************************************)
\* All permits of the semaphore are back
AllPermitsFree == semaphore = NewSemaphore(max_concurrent)

\* C27: analyze_scan_report always finishes: with every admitted analysis ending
\* (result, exception or timeout), every queued identifier is eventually admitted,
\* the call returns, and no permit is held when the batch ends.
C27_BatchFinishes ==
    /\ <>(bpc = "returned")
    /\ \A k \in 1..MaxFindings : (k \in Waiting) ~> (k \in InFlight)
    /\ []((bpc = "returned" /\ findings # <<>>) => AllPermitsFree)

C27_Witness ==
    /\ bpc = "returned"
    /\ Len(findings) > max_concurrent
    /\ AllPermitsFree
    /\ \E k \in Tasks : TimedOut(k)
    /\ \E k \in Tasks : Failed(k) /\ ~TimedOut(k)
    /\ \E k \in Tasks : Succeeded(k)

AllCallsSucceeded == calls = [n \in 1..Len(CallOrder) |-> <<CallOrder[n], "ok">>]

\* C29 as stated: whenever the metadata lookup, the embedding call and the vector
\* search all succeed, search_vulnerability_knowledge returns a RetrievedContext, for
\* every top_k from 1 to 20 and every store content, with at most 20 retrieved_chunks
\* and at most 10 source_urls that are non-null, pairwise distinct and taken from the
\* returned rows.
C29_ContextReturnedWithinLimits ==
    (ServiceFinished /\ AllCallsSucceeded /\ top_k \in 1..MaxChunks) =>
        /\ ServiceReturned
        /\ LET ctx == svcOutcome.value
           IN  /\ Len(ctx.retrieved_chunks) <= MaxChunks
               /\ Len(ctx.source_urls) <= MaxSourceUrls
               /\ \A i \in 1..Len(ctx.source_urls) :
                     /\ ctx.source_urls[i] # None
                     /\ \E n \in 1..Len(chunks_data) : chunks_data[n].url = ctx.source_urls[i]
                     /\ \A j \in 1..Len(ctx.source_urls) :
                           i # j => ctx.source_urls[i] # ctx.source_urls[j]

====
